---------------------------- MODULE Spec2Model ----------------------------
(***************************************************************************)
(* A model of thanos_cli: the weighted sampler (weights.py), the weight    *)
(* calculator (weights.py), the path-protection matcher (protection.py),   *)
(* the config search (config.py), the snap operation (snap.py) and the     *)
(* init command (cli.py); and of the older snap command (thanos/cli.py).   *)
(*                                                                         *)
(* Representation.                                                         *)
(*  - A weight is an integer number of 1/600: 600 is 1.0, 300 is 0.5 and   *)
(*    W(90) = 540 is 0.9.  Config weights are whole hundredths, hence      *)
(*    multiples of 6, so the mean of one, two or three of them is again    *)
(*    an integer and is computed exactly.                                  *)
(*  - A string that the code inspects (a file name, a pattern, a range     *)
(*    selector) is a sequence of one-character strings.                    *)
(*  - A path is the sequence of its segments, each a string.               *)
(*  - A float the code compares (an age in days, a size in MB, a parsed    *)
(*    range bound) is an exact fraction <<num, den>>, den > 0.             *)
(*  - Python list indices are 0-based; the sequences here are 1-based, so  *)
(*    an index idx of the code is idx + 1 here.                            *)
(*  - The random generator is a stream of raw values 0..RawMax; a raw      *)
(*    value stands for random() = raw / (RawMax + 1), a point of [0, 1).   *)
(*    random.uniform(0, total) is 0 + total * random(), the fraction       *)
(*    <<total * raw, RawMax + 1>>, compared exactly by cross-              *)
(*    multiplication; random.randint(0, n - 1) is raw % n.  The code       *)
(*    computes r and the running sum in doubles, whose rounding decides    *)
(*    the comparison r <= cumulative only when the two are equal in exact  *)
(*    arithmetic.  RawMax + 1 is a prime above every sum of weights (in    *)
(*    units of 1/600), so a draw other than 0 never equals a running sum:  *)
(*    the two differ by at least 1 / (600 * (RawMax + 1)), far more than   *)
(*    the rounding of a double, and the exact comparison is the one the    *)
(*    code makes.  The draw 0 is exact in doubles as well.  The code       *)
(*    tells two values of random() apart only by the index they lead to,   *)
(*    so a step draws one raw value for each index the generator can       *)
(*    lead to, the two ends 0 and RawMax of the range among them.          *)
(***************************************************************************)
EXTENDS Integers, Sequences, FiniteSets, TLC

VARIABLES
    pc,                 \* position of the running operation
    s_files,            \* weighted_random_sample: argument files
    s_weights,          \* weighted_random_sample: argument weights
    s_k,                \* weighted_random_sample: argument k
    selected,           \* weighted_random_sample: local selected
    remaining_files,    \* weighted_random_sample: local remaining_files
    remaining_weights,  \* weighted_random_sample: local remaining_weights
    loop_i,             \* weighted_random_sample: iterations of the for loop started
                        \* (the one that ends at break included)
    s_r,                \* weighted_random_sample: local r, or None while unbound
    s_result,           \* value returned by weighted_random_sample, or NoSample before it returns
    rng_seed,           \* the seed the generator was last seeded with, or None
    rng_stream,         \* the raw values the seeded generator has produced so far
    rng_pos,            \* how many raw values were consumed since seeding
    seed,               \* the caller's seed parameter (an integer or None)
    call_no,            \* which of the two runs is executing (reproducibility)
    first_result,       \* the result of the first run
    w_file,             \* calculate_file_weight: argument file (name and stat data)
    w_config,           \* calculate_file_weight: argument weights_config
    w_now,              \* calculate_file_weight: time.time(), in seconds
    w_contribs,         \* calculate_file_weight: the local list weights at return
    w_result,           \* value returned by calculate_file_weight, or NoResult
    r_x,                \* _matches_age_range / _matches_size_range: the number tested
    r_range,            \* _matches_age_range / _matches_size_range: the range string
    r_result,           \* "True", "False" or "ValueError", or NoResult before the call
    p_file,             \* should_protect_file: argument file (absolute path)
    p_base,             \* should_protect_file: argument base_path
    p_patterns,         \* should_protect_file: argument patterns
    p_result,           \* value returned by should_protect_file, or NoResult
    c_directory,        \* find_config_file: Path(directory).resolve(), as segments
    c_holders,          \* the directories that contain a file named filename
    c_result,           \* find_config_file: the directory of the file returned, or None
    disk,               \* the files that exist under the target directory
    disk_at_start,      \* the files that existed when snap was called
    dry_run,            \* snap: parameter dry_run
    no_protect,         \* snap: parameter no_protect
    ignore_file,        \* the lines of .thanosignore, or None when there is none
    thanosrc,           \* the dict load_thanosrc returns
    parent_ignore_file, \* the lines of the .thanosignore of a parent directory, or None
    parent_thanosrc,    \* the dict of the .thanosrc.json of a parent directory
    confirm_input,      \* the text typed at the confirmation prompt, or None
    protected_patterns, \* snap: local protected_patterns
    weights_config,     \* snap: local weights_config
    use_weights,        \* snap: local use_weights
    all_files,          \* snap: local all_files
    files,              \* snap: local files (the eligible files)
    protected_files,    \* snap: local protected_files
    eliminated,         \* snap: local eliminated
    unlink_i,           \* snap: how many elements of eliminated the loop has visited
    eliminated_count,   \* snap: local eliminated_count
    failed_count        \* snap: local failed_count

sampleVars == <<s_files, s_weights, s_k, selected, remaining_files,
                remaining_weights, loop_i, s_r, s_result>>
rngVars == <<rng_seed, rng_stream, rng_pos>>
runVars == <<seed, call_no, first_result>>
rangeVars == <<r_x, r_range, r_result>>
weightVars == <<w_file, w_config, w_now, w_contribs, w_result, rangeVars>>
protectVars == <<p_file, p_base, p_patterns, p_result>>
findVars == <<c_directory, c_holders, c_result>>
snapVars == <<disk, disk_at_start, dry_run, no_protect, ignore_file, thanosrc,
                   parent_ignore_file, parent_thanosrc,
              confirm_input, protected_patterns, weights_config, use_weights,
              all_files, files, protected_files, eliminated, unlink_i, eliminated_count, failed_count>>
vars == <<pc, sampleVars, rngVars, runVars, weightVars, protectVars, findVars, snapVars>>

-----------------------------------------------------------------------------
(* Bounds of the model *)

MaxFiles == 3
RawMax == 8190

\* an Optional[int] is a sequence of at most one integer
None == <<>>
Some(x) == <<x>>
\* the sampler's result before it returns; pc tells an empty result from none
NoSample == <<>>
NoResult == "NoResult"

\* 0.5, the neutral weight, in units of 1/600
Half == 300
One == 2 * Half
\* a weight given in hundredths: W(90) is 0.9
W(hundredths) == 6 * hundredths

RawVals == 0..RawMax
\* random() is raw / RawRange: it takes 0 and never takes 1; RawRange is a
\* prime above every sum of weights, so only the draw 0 equals a running sum
RawRange == RawMax + 1
WeightVals == {0, Half, One}
MaxK == MaxFiles + 1

-----------------------------------------------------------------------------
(* Helpers on sequences *)

RECURSIVE SumSeq(_)
SumSeq(s) == IF s = <<>> THEN 0 ELSE s[1] + SumSeq(Tail(s))

\* list.pop(i)
PopFirst(s, i) == Tail(s)
PopLast(s, i) == SubSeq(s, 1, Len(s) - 1)
Pop(s, i) == [j \in 1..(Len(s) - 1) |-> IF j < i THEN s[j] ELSE s[j + 1]]

Range(s) == {s[i] : i \in 1..Len(s)}

Min(a, b) == IF a <= b THEN a ELSE b

IsInjective(s) == \A i, j \in 1..Len(s) : s[i] = s[j] => i = j

-----------------------------------------------------------------------------
(* The random generator (module random, seeded in snap.py) *)

\* if seed is not None: (snap.py, the guard of random.seed)
ShouldSeedTruthy(sd) == sd /= None /\ sd[1] /= 0
ShouldSeed(sd) == sd /= None

\* random.seed(seed), guarded: a seeded generator restarts the stream its seed
\* determines; without a seed the generator stays as the process started it.
SeedRng(sd) ==
    IF ShouldSeed(sd)
    THEN /\ rng_seed' = sd
         /\ rng_pos' = 0
         /\ UNCHANGED rng_stream
    ELSE UNCHANGED rngVars

\* The generator yields raw.  An unseeded generator yields any value.  A seeded
\* one yields the stream of its seed: rng_stream records the part of that stream
\* seen so far, so a value is free the first time its position is read and
\* fixed from then on.
RngYields(raw) ==
    IF rng_seed = None
    THEN UNCHANGED rngVars
    ELSE /\ rng_pos < Len(rng_stream) => raw = rng_stream[rng_pos + 1]
         /\ rng_stream' = IF rng_pos < Len(rng_stream)
                          THEN rng_stream ELSE Append(rng_stream, raw)
         /\ rng_pos' = rng_pos + 1
         /\ UNCHANGED rng_seed

\* random.randint(0, n - 1), as a 1-based index
RandIntInclusive(n, raw) == (raw % (n + 1)) + 1
RandInt(n, raw) == (raw % n) + 1

\* raw values that lead randint(0, n - 1) to each of its results: n + 1
\* consecutive values hold every residue
RandIntRaws(n) == {raw \in 0..n : raw \in RawVals}

\* The values the generator can yield next, reps holding one value for each
\* way the caller can go on: a seeded generator whose stream is known at this
\* position yields what the stream holds.
Yieldable(reps) ==
    IF rng_seed /= None /\ rng_pos < Len(rng_stream)
    THEN {rng_stream[rng_pos + 1]}
    ELSE reps

-----------------------------------------------------------------------------
(* weighted_random_sample (weights.py) *)

RECURSIVE Cumulative(_, _)
Cumulative(ws, i) == IF i = 0 THEN 0 ELSE ws[i] + Cumulative(ws, i - 1)

\* r = random.uniform(0, total), that is 0 + (total - 0) * random()
Uniform(total, raw) == <<total * raw, RawRange>>

\* r <= cumulative
DrawMeetsStrict(total, raw, cumulative) ==
    Uniform(total, raw)[1] < cumulative * Uniform(total, raw)[2]
DrawMeets(total, raw, cumulative) ==
    Uniform(total, raw)[1] <= cumulative * Uniform(total, raw)[2]

\* the for loop over enumerate(remaining_weights): the first index whose
\* cumulative weight meets the draw; idx stays 0 (here 1) when none does
FirstIndex(ws, total, raw) ==
    LET hits == {i \in 1..Len(ws) : DrawMeets(total, raw, Cumulative(ws, i))}
    IN  IF hits = {} THEN 1
        ELSE CHOOSE i \in hits : \A j \in hits : i <= j

\* the greatest raw value whose draw the i-th cumulative weight meets
ClassTop(ws, i) == Min(RawMax, (Cumulative(ws, i) * RawRange) \div SumSeq(ws))

\* raw values that lead the scan to each index it can stop at: the draw 0 and,
\* for every index some draw stops at, the greatest such draw
UniformRaws(ws) ==
    LET tops == {ClassTop(ws, i) :
                    i \in {j \in 1..Len(ws) :
                             FirstIndex(ws, SumSeq(ws), ClassTop(ws, j)) = j}}
    IN  {raw \in {0} \cup tops : raw \in RawVals}

\* raw values for one iteration of the loop
DrawRaws(fs, ws) ==
    IF SumSeq(ws) = 0 THEN RandIntRaws(Len(fs)) ELSE UniformRaws(ws)

\* idx of one iteration
ChooseIdx(fs, ws, raw) ==
    LET total == SumSeq(ws)
    IN  IF total = 0 THEN RandInt(Len(fs), raw) ELSE FirstIndex(ws, total, raw)

\* selected = []; remaining_files = list(files); remaining_weights = list(weights)
SampleEnter(fs, ws, k) ==
    /\ s_files' = fs
    /\ s_weights' = ws
    /\ s_k' = k
    /\ selected' = <<>>
    /\ remaining_files' = fs
    /\ remaining_weights' = ws
    /\ loop_i' = 0
    /\ s_r' = None
    /\ s_result' = NoSample

\* the loop, were it to stop while one item is still in the pool
SampleLoopOverEarly == loop_i >= s_k \/ Len(remaining_files) <= 1

\* the loop ends: range(k) is exhausted, or the pool is empty (break)
SampleLoopOver == loop_i >= s_k \/ remaining_files = <<>>

\* One iteration of the for loop.  It raises IndexError when idx is not an
\* index of remaining_files (line 155) or of remaining_weights (line 157).
SampleIterate ==
    /\ pc = "sample_loop"
    /\ ~SampleLoopOver
    /\ \E raw \in Yieldable(DrawRaws(remaining_files, remaining_weights)) :
        /\ RngYields(raw)
        /\ s_r' = IF SumSeq(remaining_weights) = 0 THEN s_r
                  ELSE Some(Uniform(SumSeq(remaining_weights), raw))
        /\ LET idx == ChooseIdx(remaining_files, remaining_weights, raw)
           IN  IF idx > Len(remaining_files)
               THEN /\ pc' = "sample_raised"
                    /\ UNCHANGED <<selected, remaining_files, remaining_weights>>
               ELSE /\ selected' = Append(selected, remaining_files[idx])
                    /\ remaining_files' = Pop(remaining_files, idx)
                    /\ IF idx > Len(remaining_weights)
                       THEN /\ pc' = "sample_raised"
                            /\ UNCHANGED remaining_weights
                       ELSE /\ pc' = "sample_loop"
                            /\ remaining_weights' = Pop(remaining_weights, idx)
    /\ loop_i' = loop_i + 1
    /\ UNCHANGED <<s_files, s_weights, s_k, s_result, runVars, weightVars, protectVars, findVars,
                   snapVars>>

\* return selected: range(k) is exhausted, or one more iteration starts, finds
\* the pool empty and ends at break
SampleReturn ==
    /\ pc = "sample_loop"
    /\ SampleLoopOver
    /\ s_result' = selected
    /\ loop_i' = IF loop_i < s_k THEN loop_i + 1 ELSE loop_i
    /\ pc' = "sample_done"
    /\ UNCHANGED <<s_files, s_weights, s_k, selected, remaining_files,
                   remaining_weights, s_r, rngVars, runVars, weightVars,
                   protectVars, findVars, snapVars>>

-----------------------------------------------------------------------------
(* Strings as character sequences *)

Digits == <<"0", "1", "2", "3", "4", "5", "6", "7", "8", "9">>

IsDigit(c) == \E d \in 1..10 : Digits[d] = c

DigitVal(c) == (CHOOSE d \in 1..10 : Digits[d] = c) - 1

RECURSIVE DigitsVal(_)
DigitsVal(s) ==
    IF s = <<>> THEN 0
    ELSE 10 * DigitsVal(SubSeq(s, 1, Len(s) - 1)) + DigitVal(s[Len(s)])

RECURSIVE Pow10(_)
Pow10(n) == IF n = 0 THEN 1 ELSE 10 * Pow10(n - 1)

AllDigits(s) == \A i \in 1..Len(s) : IsDigit(s[i])

\* c in s
Contains(s, c) == \E i \in 1..Len(s) : s[i] = c

\* s.endswith(c)
EndsWith(s, c) == Len(s) > 0 /\ s[Len(s)] = c

\* s.strip()
RECURSIVE Strip(_)
Strip(s) ==
    IF s = <<>> THEN s
    ELSE IF s[1] = " " THEN Strip(Tail(s))
    ELSE IF s[Len(s)] = " " THEN Strip(SubSeq(s, 1, Len(s) - 1))
    ELSE s

\* s.split(c)
RECURSIVE Split(_, _)
Split(s, c) ==
    IF ~Contains(s, c) THEN <<s>>
    ELSE LET i == CHOOSE j \in 1..Len(s) : s[j] = c /\ \A h \in 1..(j - 1) : s[h] /= c
         IN  <<SubSeq(s, 1, i - 1)>> \o Split(SubSeq(s, i + 1, Len(s)), c)

\* s.rfind(c), 1-based, 0 when c is not in s
RFind(s, c) ==
    IF ~Contains(s, c) THEN 0
    ELSE CHOOSE j \in 1..Len(s) : s[j] = c /\ \A h \in (j + 1)..Len(s) : s[h] /= c

\* Path.suffix of a file name: the part from the last dot, unless the dot is
\* the first or the last character
Suffix(name) ==
    LET i == RFind(name, ".")
    IN  IF 1 < i /\ i < Len(name) THEN SubSeq(name, i, Len(name)) ELSE <<>>

\* float(s) for the literals of the model's alphabet: optional blanks, an
\* optional sign, digits with an optional decimal point.  (Exponents, inf, nan
\* and underscores are outside the alphabet.)  ok = FALSE is ValueError.
ParseFloat(str) ==
    LET s == Strip(str)
        signed == Len(s) > 0 /\ s[1] \in {"+", "-"}
        body == IF signed THEN Tail(s) ELSE s
        dot == RFind(body, ".")
        ip == IF dot = 0 THEN body ELSE SubSeq(body, 1, dot - 1)
        fp == IF dot = 0 THEN <<>> ELSE SubSeq(body, dot + 1, Len(body))
        wellFormed == AllDigits(ip) /\ AllDigits(fp) /\ Len(ip) + Len(fp) > 0
        mag == DigitsVal(ip \o fp)
    IN  IF wellFormed
        THEN [ok |-> TRUE,
              num |-> IF signed /\ s[1] = "-" THEN 0 - mag ELSE mag,
              den |-> Pow10(Len(fp))]
        ELSE [ok |-> FALSE, num |-> 0, den |-> 1]

\* a <= b and a < b for fractions <<num, den>> with den > 0
FracLeq(a, b) == a[1] * b[2] <= b[1] * a[2]
FracLt(a, b) == a[1] * b[2] < b[1] * a[2]

-----------------------------------------------------------------------------
(* _matches_age_range, _matches_size_range (weights.py) *)

\* The two functions have the same body.  The value is "True", "False", or
\* "ValueError" when float() raises outside the try block (lines 82, 113).
MatchesRange(x, range_str) ==
    LET r == Strip(range_str)
    IN  IF EndsWith(r, "+") \/ EndsWith(r, "-")
        THEN LET lo == ParseFloat(SubSeq(r, 1, Len(r) - 1))
             IN  IF ~lo.ok THEN "ValueError"
                 ELSE IF FracLeq(<<lo.num, lo.den>>, x) THEN "True" ELSE "False"
        ELSE IF Contains(r, "-")
        THEN LET parts == Split(r, "-")
             IN  IF Len(parts) = 2
                 THEN LET lo == ParseFloat(parts[1])
                          hi == ParseFloat(parts[2])
                      IN  IF ~lo.ok \/ ~hi.ok THEN "False"
                          ELSE IF FracLeq(<<lo.num, lo.den>>, x)
                                  /\ FracLt(x, <<hi.num, hi.den>>)
                               THEN "True" ELSE "False"
                 ELSE "False"
        ELSE "False"

MatchesAgeRange(age_days, age_range) == MatchesRange(age_days, age_range)

MatchesSizeRange(size_mb, size_range) == MatchesRange(size_mb, size_range)

-----------------------------------------------------------------------------
(* calculate_file_weight (weights.py) *)

SecondsPerDay == 86400
BytesPerMB == 1024 * 1024

\* A weights_config is a function from the keys it has to tables; a table (a
\* dict, in insertion order) is a sequence of <<selector, weight>> pairs.
\* weights_config.get(key, {})
GetTable(cfg, key) == IF key \in DOMAIN cfg THEN cfg[key] ELSE <<>>

\* ext_weights and file.suffix in ext_weights: the value of that key
ExtContrib(file, ext_weights) ==
    LET hits == {i \in 1..Len(ext_weights) : ext_weights[i][1] = Suffix(file.name)}
    IN  IF hits = {} THEN <<>> ELSE <<ext_weights[CHOOSE i \in hits : TRUE][2]>>

\* for range, weight in table.items(): if matches: append; break
\* A ValueError leaves the loop for the except clause: nothing is appended.
RECURSIVE ScanRanges(_, _)
ScanRanges(x, table) ==
    IF table = <<>> THEN <<>>
    ELSE LET m == MatchesRange(x, table[1][1])
         IN  IF m = "True" THEN <<table[1][2]>>
             ELSE IF m = "ValueError" THEN <<>>
             ELSE ScanRanges(x, Tail(table))

\* the age block, were a failed stat() to count as the neutral weight
AgeContribDefaultOnError(file, age_weights, now) ==
    IF age_weights = <<>> THEN <<>>
    ELSE IF ~file.age_stat_ok THEN <<Half>>
    ELSE ScanRanges(<<now - file.mtime, SecondsPerDay>>, age_weights)

\* the age block: skipped when the table is empty or stat() raises OSError
AgeContrib(file, age_weights, now) ==
    IF age_weights = <<>> \/ ~file.age_stat_ok THEN <<>>
    ELSE ScanRanges(<<now - file.mtime, SecondsPerDay>>, age_weights)

\* the size block
SizeContrib(file, size_weights) ==
    IF size_weights = <<>> \/ ~file.size_stat_ok THEN <<>>
    ELSE ScanRanges(<<file.size, BytesPerMB>>, size_weights)

\* the list weights when the function returns
Contributions(file, cfg, now) ==
    ExtContrib(file, GetTable(cfg, "by_extension"))
        \o AgeContrib(file, GetTable(cfg, "by_age_days"), now)
        \o SizeContrib(file, GetTable(cfg, "by_size_mb"))

\* the mean, were the division by len(weights) left out
MeanAsSum(ws) == SumSeq(ws)

\* sum(weights) / len(weights)
MeanAsLast(ws) == ws[Len(ws)]
Mean(ws) == SumSeq(ws) \div Len(ws)

\* if not weights_config: return 0.5
EmptyConfigWeight == Half

\* the empty sum, what sum(weights) is with no contribution
NoMatchWeightZero == SumSeq(<<>>)

\* ... if weights else 0.5
NoMatchWeight == Half

CalculateFileWeight(file, cfg, now) ==
    IF DOMAIN cfg = {} THEN EmptyConfigWeight
    ELSE LET ws == Contributions(file, cfg, now)
         IN  IF ws = <<>> THEN NoMatchWeight ELSE Mean(ws)

-----------------------------------------------------------------------------
(* should_protect_file (protection.py: design sections 3, 4.1, 4.2) *)

\* file.relative_to(base_path): the segments below base, or ValueError
\* (ok = FALSE) when base is not a prefix of the path
RelativeTo(path, base) ==
    IF Len(base) <= Len(path) /\ SubSeq(path, 1, Len(base)) = base
    THEN [ok |-> TRUE, parts |-> SubSeq(path, Len(base) + 1, Len(path))]
    ELSE [ok |-> FALSE, parts |-> <<>>]

\* a single-segment glob: "*" is any run of characters, the rest is literal
RECURSIVE Glob(_, _)
Glob(pat, name) ==
    IF pat = <<>> THEN name = <<>>
    ELSE IF pat[1] = "*"
         THEN Glob(Tail(pat), name) \/ (name /= <<>> /\ Glob(pat, Tail(name)))
         ELSE name /= <<>> /\ name[1] = pat[1] /\ Glob(Tail(pat), Tail(name))

HasDoubleStar(pat) == \E i \in 1..(Len(pat) - 1) : pat[i] = "*" /\ pat[i + 1] = "*"

\* the four pattern forms, decided by the literal form of the pattern
PatternKind(pat) ==
    IF EndsWith(pat, "/") THEN "directory"
    ELSE IF HasDoubleStar(pat) THEN "double_star"
    ELSE IF Contains(pat, "*") THEN "wildcard"
    ELSE "exact"

\* directory pattern, were the named directory looked for at the root only
MatchesDirectoryAtRoot(pat, parts) ==
    LET comps == Split(SubSeq(pat, 1, Len(pat) - 1), "/")
    IN  /\ Len(comps) < Len(parts)
        /\ SubSeq(parts, 1, Len(comps)) = comps

\* directory pattern: the named directory is an ancestor of the file, at any depth
MatchesDirectory(pat, parts) ==
    LET comps == Split(SubSeq(pat, 1, Len(pat) - 1), "/")
    IN  \E i \in 1..Len(parts) :
            /\ i + Len(comps) - 1 < Len(parts)
            /\ SubSeq(parts, i, i + Len(comps) - 1) = comps

\* double-star pattern: "**" stands for any number of segments, every other
\* component is a glob for one segment
RECURSIVE MatchesComponents(_, _)
MatchesComponents(comps, parts) ==
    IF comps = <<>> THEN parts = <<>>
    ELSE IF comps[1] = <<"*", "*">>
         THEN \/ MatchesComponents(Tail(comps), parts)
              \/ parts /= <<>> /\ MatchesComponents(comps, Tail(parts))
         ELSE /\ parts /= <<>>
              /\ Glob(comps[1], parts[1])
              /\ MatchesComponents(Tail(comps), Tail(parts))

\* double-star pattern, were "**" to stand for exactly one segment
MatchesDoubleStarOneLevel(pat, parts) ==
    LET comps == Split(pat, "/")
    IN  /\ Len(comps) = Len(parts)
        /\ \A i \in 1..Len(comps) :
               comps[i] = <<"*", "*">> \/ Glob(comps[i], parts[i])

MatchesDoubleStar(pat, parts) == MatchesComponents(Split(pat, "/"), parts)

\* wildcard pattern, were it tested against the whole relative path
MatchesWildcardWholePath(pat, parts) == Len(parts) = 1 /\ Glob(pat, parts[1])

\* wildcard pattern: a glob for the final segment
MatchesWildcard(pat, parts) == parts /= <<>> /\ Glob(pat, parts[Len(parts)])

\* exact pattern, were it compared with the file name only
MatchesExactFileName(pat, parts) == parts /= <<>> /\ parts[Len(parts)] = pat

\* exact pattern, were a segment that starts with the pattern to match
MatchesExactPrefix(pat, parts) ==
    \E i \in 1..Len(parts) :
        Len(pat) <= Len(parts[i]) /\ SubSeq(parts[i], 1, Len(pat)) = pat

\* exact pattern: equal to a segment at any depth, or to the whole relative path
MatchesExact(pat, parts) ==
    \/ \E i \in 1..Len(parts) : parts[i] = pat
    \/ Split(pat, "/") = parts

PatternMatches(pat, parts) ==
    LET kind == PatternKind(pat)
    IN  CASE kind = "directory" -> MatchesDirectory(pat, parts)
          [] kind = "double_star" -> MatchesDoubleStar(pat, parts)
          [] kind = "wildcard" -> MatchesWildcard(pat, parts)
          [] kind = "exact" -> MatchesExact(pat, parts)

\* empty means off
EmptyPatternsVerdictClosed == TRUE
EmptyPatternsVerdict == FALSE

\* fail closed: a path outside the base is protected
OutsideVerdict == TRUE

ShouldProtectFile(file, base_path, patterns) ==
    IF patterns = {} THEN EmptyPatternsVerdict
    ELSE LET rel == RelativeTo(file, base_path)
         IN  IF ~rel.ok THEN OutsideVerdict
             ELSE \E pat \in patterns : PatternMatches(pat, rel.parts)

-----------------------------------------------------------------------------
(* config.py *)

\* get_default_protected_patterns(): .git, .git/, .gitignore, .gitattributes, .svn, .hg
\*   venv/, .venv/, env/, .env.local/, __pycache__/, *.pyc
\*   *.pyo, node_modules/, .env, .env.*, *.config, config.yml
\*   config.yaml, package-lock.json, yarn.lock, pnpm-lock.yaml, Cargo.lock, Pipfile.lock
\*   poetry.lock, Gemfile.lock, uv.lock, .thanosignore, .thanosrc.json, .vscode/
\*   .idea/, *.db, *.sqlite
DefaultProtectedPatterns ==
    {<<".", "g", "i", "t">>,
     <<".", "g", "i", "t", "/">>,
     <<".", "g", "i", "t", "i", "g", "n", "o", "r", "e">>,
     <<".", "g", "i", "t", "a", "t", "t", "r", "i", "b", "u", "t", "e", "s">>,
     <<".", "s", "v", "n">>,
     <<".", "h", "g">>,
     <<"v", "e", "n", "v", "/">>,
     <<".", "v", "e", "n", "v", "/">>,
     <<"e", "n", "v", "/">>,
     <<".", "e", "n", "v", ".", "l", "o", "c", "a", "l", "/">>,
     <<"_", "_", "p", "y", "c", "a", "c", "h", "e", "_", "_", "/">>,
     <<"*", ".", "p", "y", "c">>,
     <<"*", ".", "p", "y", "o">>,
     <<"n", "o", "d", "e", "_", "m", "o", "d", "u", "l", "e", "s", "/">>,
     <<".", "e", "n", "v">>,
     <<".", "e", "n", "v", ".", "*">>,
     <<"*", ".", "c", "o", "n", "f", "i", "g">>,
     <<"c", "o", "n", "f", "i", "g", ".", "y", "m", "l">>,
     <<"c", "o", "n", "f", "i", "g", ".", "y", "a", "m", "l">>,
     <<"p", "a", "c", "k", "a", "g", "e", "-", "l", "o", "c", "k", ".", "j", "s", "o", "n">>,
     <<"y", "a", "r", "n", ".", "l", "o", "c", "k">>,
     <<"p", "n", "p", "m", "-", "l", "o", "c", "k", ".", "y", "a", "m", "l">>,
     <<"C", "a", "r", "g", "o", ".", "l", "o", "c", "k">>,
     <<"P", "i", "p", "f", "i", "l", "e", ".", "l", "o", "c", "k">>,
     <<"p", "o", "e", "t", "r", "y", ".", "l", "o", "c", "k">>,
     <<"G", "e", "m", "f", "i", "l", "e", ".", "l", "o", "c", "k">>,
     <<"u", "v", ".", "l", "o", "c", "k">>,
     <<".", "t", "h", "a", "n", "o", "s", "i", "g", "n", "o", "r", "e">>,
     <<".", "t", "h", "a", "n", "o", "s", "r", "c", ".", "j", "s", "o", "n">>,
     <<".", "v", "s", "c", "o", "d", "e", "/">>,
     <<".", "i", "d", "e", "a", "/">>,
     <<"*", ".", "d", "b">>,
     <<"*", ".", "s", "q", "l", "i", "t", "e">>}

\* load_thanosignore: the stripped lines that are neither empty nor comments;
\* no file gives no patterns
LoadThanosignore(lines_opt) ==
    IF lines_opt = None THEN {}
    ELSE LET lines == lines_opt[1]
         IN  {Strip(lines[i]) : i \in {j \in 1..Len(lines) :
                 Strip(lines[j]) /= <<>> /\ Strip(lines[j])[1] /= "#"}}

\* find_config_file: a directory is the sequence of its segments below the
\* filesystem root, the root is the empty sequence
\* current.parent (the root is its own parent)
Parent(dir) == IF dir = <<>> THEN dir ELSE SubSeq(dir, 1, Len(dir) - 1)

\* for _ in range(5)
SearchLevels == 5

\* the loop, with n iterations left: holders are the directories in which
\* (current / filename).exists()
RECURSIVE FindFrom(_, _, _, _)
FindFrom(current, filename, holders, n) ==
    IF n = 0 THEN None
    ELSE IF current \in holders THEN Some(Append(current, filename))
    ELSE IF Parent(current) = current THEN None
    ELSE FindFrom(Parent(current), filename, holders, n - 1)

\* the search, were it to climb until the root whatever the distance
RECURSIVE FindConfigFileUnbounded(_, _, _)
FindConfigFileUnbounded(directory, filename, holders) ==
    IF directory \in holders THEN Some(Append(directory, filename))
    ELSE IF Parent(directory) = directory THEN None
    ELSE FindConfigFileUnbounded(Parent(directory), filename, holders)

FindConfigFile(directory, filename, holders) ==
    FindFrom(directory, filename, holders, SearchLevels)

-----------------------------------------------------------------------------
(* snap (snap.py) *)

Str_snap == <<"s", "n", "a", "p">>

\* str.lower(), for the letters of the model's alphabet
LowerChar(c) ==
    CASE c = "S" -> "s" [] c = "N" -> "n" [] c = "A" -> "a" [] c = "P" -> "p"
      [] OTHER -> c

Lower(s) == [i \in 1..Len(s) |-> LowerChar(s[i])]

\* not (confirm.lower() != "snap")
ConfirmedNonEmpty(text) == text /= <<>>
Confirmed(text) == Lower(text) = Str_snap

\* the pattern set, were the defaults left out when the ignore file gives nothing
ProtectedPatternsNoDefault(np, lines_opt) ==
    IF ~np THEN LoadThanosignore(lines_opt) ELSE {}

\* the pattern set, were the defaults always added to the ignore file's patterns
ProtectedPatternsWithDefault(np, lines_opt) ==
    IF ~np THEN LoadThanosignore(lines_opt) \cup DefaultProtectedPatterns ELSE {}

\* the pattern set snap protects with
ProtectedPatterns(np, lines_opt) ==
    IF ~np
    THEN LET ignore_patterns == LoadThanosignore(lines_opt)
         IN  IF ignore_patterns /= {} THEN ignore_patterns
             ELSE DefaultProtectedPatterns
    ELSE {}

\* config.get("weights", {})
GetWeights(config) == IF "weights" \in DOMAIN config THEN config["weights"] ELSE <<>>

\* bool(weights_config)
UseWeights(cfg) == DOMAIN cfg /= {}

\* total_files // 2
FilesToEliminateCeil(total_files) == (total_files + 1) \div 2
FilesToEliminate(total_files) == total_files \div 2

\* random.sample(population, k) for a population of at most 21 items:
\*   pool = list(population)
\*   for i in range(k): j = randbelow(n - i); result[i] = pool[j];
\*                      pool[j] = pool[n - i - 1]
\* pool[j] = pool[n - i - 1]: the live part of the pool, one shorter
MoveLastTo(pool, j) ==
    [h \in 1..(Len(pool) - 1) |-> IF h = j THEN pool[Len(pool)] ELSE pool[h]]

\* the live part of the pool after the picks in result
RECURSIVE SamplePool(_, _)
SamplePool(population, result) ==
    IF result = <<>> THEN population
    ELSE LET before == SamplePool(population, SubSeq(result, 1, Len(result) - 1))
             j == CHOOSE h \in 1..Len(before) : before[h] = result[Len(result)]
         IN  MoveLastTo(before, j)

\* one iteration of the loop of random.sample(files, files_to_eliminate), the
\* picks so far held in eliminated
UniformDraw ==
    /\ Len(eliminated) < FilesToEliminate(Len(files))
    /\ LET pool == SamplePool(files, eliminated)
       IN  \E raw \in Yieldable(RandIntRaws(Len(pool))) :
            /\ RngYields(raw)
            /\ eliminated' = Append(eliminated, pool[RandInt(Len(pool), raw)])

\* the loop of random.sample is over
UniformDone == Len(eliminated) = FilesToEliminate(Len(files))

\* eliminated = random.sample(files, files_to_eliminate): one pick
SnapSelectUniform ==
    /\ pc = "select_uniform"
    /\ UniformDraw
    /\ pc' = "select_uniform"
    /\ UNCHANGED <<disk, disk_at_start, dry_run, no_protect, ignore_file, thanosrc,
                   parent_ignore_file, parent_thanosrc,
                   confirm_input, protected_patterns, weights_config, use_weights,
                   all_files, files, protected_files, unlink_i, eliminated_count,
                   failed_count, sampleVars, runVars, weightVars, protectVars, findVars>>

\* random.sample returns
SnapSelectUniformReturn ==
    /\ pc = "select_uniform"
    /\ UniformDone
    /\ pc' = "selected"
    /\ UNCHANGED <<sampleVars, rngVars, runVars, weightVars, protectVars, findVars, snapVars>>

\* eliminated = weighted_random_sample(files, weights, files_to_eliminate)
SnapSelectWeighted ==
    /\ pc = "sample_done"
    /\ eliminated' = s_result
    /\ pc' = "selected"
    /\ UNCHANGED <<disk, disk_at_start, dry_run, no_protect, ignore_file, thanosrc,
                   parent_ignore_file, parent_thanosrc,
                   confirm_input, protected_patterns, weights_config, use_weights, all_files,
                   files, protected_files, unlink_i, eliminated_count, failed_count,
                   sampleVars, rngVars, runVars, weightVars, protectVars, findVars>>

-----------------------------------------------------------------------------
(* The parts of the state an operation does not use stay at these values *)

NoFile == [name |-> <<>>, age_stat_ok |-> FALSE, size_stat_ok |-> FALSE,
           mtime |-> 0, size |-> 0]

IdleSample ==
    /\ s_files = <<>> /\ s_weights = <<>> /\ s_k = 0
    /\ selected = <<>> /\ remaining_files = <<>> /\ remaining_weights = <<>>
    /\ loop_i = 0 /\ s_r = None /\ s_result = NoSample

IdleRng == rng_seed = None /\ rng_stream = <<>> /\ rng_pos = 0

IdleRun == seed = None /\ call_no = 1 /\ first_result = NoSample

IdleRange == r_x = <<0, 1>> /\ r_range = <<>> /\ r_result = NoResult

IdleWeight ==
    /\ w_file = NoFile /\ w_config = <<>> /\ w_now = 0
    /\ w_contribs = <<>> /\ w_result = NoResult
    /\ IdleRange

IdleFind == c_directory = <<>> /\ c_holders = {} /\ c_result = None

IdleProtect ==
    /\ p_file = <<>> /\ p_base = <<>> /\ p_patterns = {} /\ p_result = NoResult

IdleSnapLocals ==
    /\ confirm_input = None /\ protected_patterns = {} /\ weights_config = <<>>
    /\ use_weights = FALSE
    /\ all_files = <<>> /\ files = <<>> /\ protected_files = <<>>
    /\ eliminated = <<>> /\ unlink_i = 0
    /\ eliminated_count = 0 /\ failed_count = 0

IdleSnap ==
    /\ disk = {} /\ disk_at_start = {} /\ dry_run = FALSE /\ no_protect = FALSE
    /\ ignore_file = None /\ thanosrc = <<>>
    /\ parent_ignore_file = None /\ parent_thanosrc = <<>>
    /\ IdleSnapLocals

-----------------------------------------------------------------------------
(* SpecSample: one call of weighted_random_sample on arbitrary inputs, the  *)
(* generator unseeded.                                                      *)

Items(n) == [i \in 1..n |-> i]

InitSample ==
    /\ pc = "sample_loop"
    /\ \E n \in 0..MaxFiles, m \in 0..MaxFiles :
        /\ s_files = Items(n)
        /\ s_weights \in [1..m -> WeightVals]
        /\ remaining_files = s_files
        /\ remaining_weights = s_weights
    /\ s_k \in (-1)..MaxK
    /\ selected = <<>>
    /\ loop_i = 0
    /\ s_r = None
    /\ s_result = NoSample
    /\ IdleRng
    /\ IdleRun
    /\ IdleWeight
    /\ IdleProtect /\ IdleFind
    /\ IdleSnap

NextSample == SampleIterate \/ SampleReturn

SpecSample == InitSample /\ [][NextSample]_vars

\* the loop is sequential code: an enabled step is eventually taken
SpecSampleFair == SpecSample /\ WF_vars(NextSample)

SameLength == Len(s_files) = Len(s_weights)

AllZero(ws) == \A i \in 1..Len(ws) : ws[i] = 0

-----------------------------------------------------------------------------
(* SpecRepro: the caller seeds the generator and selects (snap.py, lines    *)
(* 37-39 and 95-99), with weighted_random_sample or with random.sample, in  *)
(* two independent runs (two processes) over the same inputs.               *)

Seeds == {None, Some(0), Some(7)}

InitRepro ==
    /\ pc = "call"
    /\ use_weights \in BOOLEAN
    /\ \E n \in 0..MaxFiles :
        /\ files = Items(n)
        /\ IF use_weights
           THEN /\ s_files = files
                /\ s_weights \in [1..n -> WeightVals]
                /\ s_k \in 0..MaxK
           ELSE /\ s_files = <<>>
                /\ s_weights = <<>>
                /\ s_k = 0
    /\ selected = <<>>
    /\ remaining_files = <<>>
    /\ remaining_weights = <<>>
    /\ loop_i = 0
    /\ s_r = None
    /\ s_result = NoSample
    /\ IdleRng
    /\ seed \in Seeds
    /\ call_no = 1
    /\ first_result = NoSample
    /\ IdleWeight
    /\ IdleProtect /\ IdleFind
    /\ disk = {} /\ disk_at_start = {} /\ dry_run = FALSE /\ no_protect = FALSE
    /\ ignore_file = None /\ thanosrc = <<>>
    /\ parent_ignore_file = None /\ parent_thanosrc = <<>>
    /\ confirm_input = None /\ protected_patterns = {} /\ weights_config = <<>>
    /\ all_files = <<>> /\ protected_files = <<>>
    /\ eliminated = <<>> /\ unlink_i = 0
    /\ eliminated_count = 0 /\ failed_count = 0

\* if seed is not None: random.seed(seed); ... if use_weights:
\* weighted_random_sample(files, weights, k) else: random.sample(files, k)
ReproCall ==
    /\ pc = "call"
    /\ SeedRng(seed)
    /\ eliminated' = <<>>
    /\ IF use_weights
       THEN /\ SampleEnter(s_files, s_weights, s_k)
            /\ pc' = "sample_loop"
       ELSE /\ pc' = "select_uniform"
            /\ UNCHANGED sampleVars
    /\ UNCHANGED <<disk, disk_at_start, dry_run, no_protect, ignore_file, thanosrc,
                   parent_ignore_file, parent_thanosrc,
                   confirm_input, protected_patterns, weights_config, use_weights,
                   all_files, files, protected_files, unlink_i, eliminated_count,
                   failed_count, runVars, weightVars, protectVars, findVars>>

\* the first run is over; the second starts in a new process, whose generator
\* is not seeded yet
ReproSecondRun ==
    /\ pc = "selected"
    /\ call_no = 1
    /\ first_result' = eliminated
    /\ call_no' = 2
    /\ rng_seed' = None
    /\ rng_pos' = 0
    /\ pc' = "call"
    /\ UNCHANGED <<sampleVars, rng_stream, seed, weightVars, protectVars, findVars, snapVars>>

NextRepro ==
    \/ ReproCall
    \/ SampleIterate
    \/ SampleReturn
    \/ SnapSelectWeighted
    \/ SnapSelectUniform
    \/ SnapSelectUniformReturn
    \/ ReproSecondRun

SpecRepro == InitRepro /\ [][NextRepro]_vars

-----------------------------------------------------------------------------
(* Claims about weighted_random_sample *)

\* C1: for same-length inputs and k >= 0 the sampler does not raise and returns
\* exactly min(k, len(items)) elements, each from a different position of items.
C1_SampleCount ==
    (SameLength /\ s_k >= 0) =>
        /\ pc /= "sample_raised"
        /\ pc = "sample_done" =>
            /\ Len(s_result) = Min(s_k, Len(s_files))
            /\ IsInjective(s_result)
            /\ Range(s_result) \subseteq Range(s_files)

C1_Witness ==
    /\ pc = "sample_done" /\ SameLength
    /\ Len(s_files) = 3 /\ s_k = 2 /\ Len(s_result) = 2
    /\ s_weights = <<Half, 0, One>>

C7_ZeroSafe ==
    (SameLength /\ s_k >= 0 /\ AllZero(s_weights)) =>
        /\ pc /= "sample_raised"
        /\ loop_i <= s_k
        /\ pc = "sample_loop" => Len(remaining_files) = Len(s_files) - loop_i
        /\ pc = "sample_done" =>
            /\ Len(s_result) = Min(s_k, Len(s_files))
            /\ Len(remaining_files) = Len(s_files) - Len(s_result)
            /\ loop_i \in {Len(s_result), Len(s_result) + 1}
            /\ loop_i = Len(s_result) + 1 => remaining_files = <<>>

C8_SeedReproducible ==
    /\ (pc = "sample_done" /\ call_no = 2 /\ seed /= None) => s_result = first_result
    /\ (pc = "selected" /\ call_no = 2 /\ seed /= None) => eliminated = first_result

C8_Witness ==
    /\ pc = "sample_done" /\ call_no = 2 /\ seed = Some(0)
    /\ use_weights
    /\ s_result = first_result
    /\ Len(s_result) = 2 /\ s_result[1] = 2

-----------------------------------------------------------------------------
(* SpecWeight: one call of calculate_file_weight *)

Str_log == <<".", "l", "o", "g">>
Str_txt == <<".", "t", "x", "t">>
Name_app_log == <<"a", "p", "p">> \o Str_log
Name_test_txt == <<"t", "e", "s", "t">> \o Str_txt
Name_env == <<".", "e", "n", "v">>
Name_thanosignore ==
    <<".", "t", "h", "a", "n", "o", "s", "i", "g", "n", "o", "r", "e">>
Name_thanosrc_json ==
    <<".", "t", "h", "a", "n", "o", "s", "r", "c", ".", "j", "s", "o", "n">>

\* {".log": 0.9}
ExtTableLog == << <<Str_log, W(90)>> >>
\* {".log": 0.9, ".txt": 0.3}
ExtTableBoth == << <<Str_log, W(90)>>, <<Str_txt, W(30)>> >>
\* {"0-7": 0.2, "7-30": 0.5, "30+": 0.9}
AgeTable == << <<<<"0", "-", "7">>, W(20)>>,
               <<<<"7", "-", "3", "0">>, W(50)>>,
               <<<<"3", "0", "+">>, W(90)>> >>
\* {"x+": 0.1, " 0-7 ": 0.2, "7-": 0.8}: the first selector is malformed
AgeTableBad == << <<<<"x", "+">>, W(10)>>,
                  <<<<" ", "0", "-", "7", " ">>, W(20)>>,
                  <<<<"7", "-">>, W(80)>> >>
\* {"0-1": 0.3, "1-10": 0.7, "10+": 0.9}
SizeTable == << <<<<"0", "-", "1">>, W(30)>>,
                <<<<"1", "-", "1", "0">>, W(70)>>,
                <<<<"1", "0", "+">>, W(90)>> >>
\* {"1-2-3": 0.1, "x-y": 0.2, "q": 0.4, "0.5-5": 0.6, "0-100": 1.0}
SizeTableOdd == << <<<<"1", "-", "2", "-", "3">>, W(10)>>,
                   <<<<"x", "-", "y">>, W(20)>>,
                   <<<<"q">>, W(40)>>,
                   <<<<"0", ".", "5", "-", "5">>, W(60)>>,
                   <<<<"0", "-", "1", "0", "0">>, W(100)>> >>

ConfigKeys == {"by_extension", "by_age_days", "by_size_mb"}

TablesOf(key) ==
    CASE key = "by_extension" -> {<<>>, ExtTableLog, ExtTableBoth}
      [] key = "by_age_days" -> {AgeTable, AgeTableBad}
      [] key = "by_size_mb" -> {SizeTable, SizeTableOdd}

\* every config with some of the three keys, each with one of its tables
WeightConfigs ==
    UNION {{cfg \in [ks -> UNION {TablesOf(k) : k \in ConfigKeys}] :
                \A k \in ks : cfg[k] \in TablesOf(k)} : ks \in SUBSET ConfigKeys}

NowSeconds == 100 * SecondsPerDay

\* ages of 0, 7 (a range boundary), 15 and 60 days, and one mtime in the future
MTimes == {NowSeconds - d * SecondsPerDay : d \in {0, 7, 15, 60}} \cup {NowSeconds + 60}

\* 0 bytes, 1 KB, exactly 1 MB, 5 MB, 11 MB
Sizes == {0, 1024, BytesPerMB, 5 * BytesPerMB, 11 * BytesPerMB}

WeightFiles ==
    [name : {Name_app_log, Name_test_txt, Name_env},
     age_stat_ok : BOOLEAN, size_stat_ok : BOOLEAN,
     mtime : MTimes, size : Sizes]

InitWeight ==
    /\ pc = "weight_call"
    /\ w_file \in WeightFiles
    /\ w_config \in WeightConfigs
    /\ w_now = NowSeconds
    /\ w_contribs = <<>>
    /\ w_result = NoResult
    /\ IdleRange
    /\ IdleSample /\ IdleRng /\ IdleRun /\ IdleProtect /\ IdleFind /\ IdleSnap

WeightCall ==
    /\ pc = "weight_call"
    /\ w_contribs' = IF DOMAIN w_config = {} THEN <<>>
                     ELSE Contributions(w_file, w_config, w_now)
    /\ w_result' = CalculateFileWeight(w_file, w_config, w_now)
    /\ pc' = "weight_done"
    /\ UNCHANGED <<w_file, w_config, w_now, rangeVars, sampleVars, rngVars, runVars,
                   protectVars, findVars, snapVars>>

NextWeight == WeightCall

SpecWeight == InitWeight /\ [][NextWeight]_vars

-----------------------------------------------------------------------------
(* SpecProtect: one call of should_protect_file *)

Seg_home == <<"h", "o", "m", "e">>
Seg_proj == <<"p", "r", "o", "j">>
Seg_tmp == <<"t", "m", "p">>
Seg_src == <<"s", "r", "c">>
Seg_pkg == <<"p", "k", "g">>
Seg_lib == <<"l", "i", "b">>
Seg_node_modules == <<"n", "o", "d", "e", "_", "m", "o", "d", "u", "l", "e", "s">>
Name_index_js == <<"i", "n", "d", "e", "x", ".", "j", "s">>
Name_c_pyc == <<"c", ".", "p", "y", "c">>
Name_env_local == Name_env \o <<".", "l", "o", "c", "a", "l">>

Pat_star_log == <<"*">> \o Str_log
Pat_node_modules_dir == Seg_node_modules \o <<"/">>
Pat_any_pyc == <<"*", "*", "/", "*", ".", "p", "y", "c">>
Pat_env == Name_env
Pat_env_star == Name_env \o <<".", "*">>
Pat_src_test == Seg_src \o <<"/">> \o Name_test_txt
Pat_src == Seg_src

PatternCatalogue ==
    {Pat_star_log, Pat_node_modules_dir, Pat_any_pyc, Pat_env, Pat_env_star,
     Pat_src_test, Pat_src}

\* relative paths of files
RelPaths ==
    {<<Name_app_log>>, <<Name_test_txt>>, <<Name_env>>, <<Name_env_local>>,
     <<Seg_node_modules, Seg_pkg, Name_index_js>>,
     <<Seg_src, Name_c_pyc>>, <<Seg_src, Name_test_txt>>,
     <<Seg_pkg, Seg_node_modules, Name_app_log>>, <<Seg_node_modules>>,
     <<Seg_node_modules, Seg_pkg, Seg_lib, Name_index_js>>,
     <<Seg_src, Seg_pkg, Name_c_pyc>>}

BaseDir == <<Seg_home, Seg_proj>>

ProtectBases == {BaseDir, <<Seg_home, Seg_proj, Seg_src>>, <<Seg_tmp>>}

MaxPatterns == 2

InitProtect ==
    /\ pc = "protect_call"
    /\ p_file \in {BaseDir \o rel : rel \in RelPaths}
    /\ p_base \in ProtectBases
    /\ p_patterns \in {ps \in SUBSET PatternCatalogue : Cardinality(ps) <= MaxPatterns}
    /\ p_result = NoResult
    /\ IdleSample /\ IdleRng /\ IdleRun /\ IdleWeight /\ IdleFind /\ IdleSnap

ProtectCall ==
    /\ pc = "protect_call"
    /\ p_result' = ShouldProtectFile(p_file, p_base, p_patterns)
    /\ pc' = "protect_done"
    /\ UNCHANGED <<p_file, p_base, p_patterns, sampleVars, rngVars, runVars, weightVars,
                   findVars, snapVars>>

NextProtect == ProtectCall

SpecProtect == InitProtect /\ [][NextProtect]_vars

-----------------------------------------------------------------------------
(* SpecSnap: one call of snap on a directory *)

\* The files that may exist under the target directory: the path below the
\* directory and what stat() reports.
SnapFileTable ==
    << [path |-> <<Name_app_log>>,
        mtime |-> NowSeconds - 60 * SecondsPerDay, size |-> 11 * BytesPerMB,
        age_stat_ok |-> TRUE, size_stat_ok |-> TRUE],
       [path |-> <<Name_test_txt>>,
        mtime |-> NowSeconds, size |-> 1024,
        age_stat_ok |-> TRUE, size_stat_ok |-> TRUE],
       [path |-> <<Name_env>>,
        mtime |-> NowSeconds - 15 * SecondsPerDay, size |-> 0,
        age_stat_ok |-> TRUE, size_stat_ok |-> TRUE],
       [path |-> <<Seg_node_modules, Seg_pkg, Name_index_js>>,
        mtime |-> NowSeconds - 7 * SecondsPerDay, size |-> BytesPerMB,
        age_stat_ok |-> TRUE, size_stat_ok |-> TRUE],
       [path |-> <<Seg_src, Name_test_txt>>,
        mtime |-> NowSeconds - 60 * SecondsPerDay, size |-> 5 * BytesPerMB,
        age_stat_ok |-> FALSE, size_stat_ok |-> TRUE],
       [path |-> <<Seg_src, Name_c_pyc>>,
        mtime |-> NowSeconds - 15 * SecondsPerDay, size |-> 5 * BytesPerMB,
        age_stat_ok |-> TRUE, size_stat_ok |-> TRUE],
       [path |-> <<Seg_src, Name_app_log>>,
        mtime |-> NowSeconds, size |-> 0,
        age_stat_ok |-> TRUE, size_stat_ok |-> FALSE],
       [path |-> <<Name_thanosignore>>,
        mtime |-> NowSeconds, size |-> 1024,
        age_stat_ok |-> TRUE, size_stat_ok |-> TRUE],
       [path |-> <<Name_thanosrc_json>>,
        mtime |-> NowSeconds, size |-> 1024,
        age_stat_ok |-> TRUE, size_stat_ok |-> TRUE] >>

\* the two files thanos init creates in the directory
Id_thanosignore == Len(SnapFileTable) - 1
Id_thanosrc == Len(SnapFileTable)
ConfigFileIds == {Id_thanosignore, Id_thanosrc}

\* how many of them the model lets exist
NumSnapFiles == 4

SnapFileIds == 1..Min(NumSnapFiles, Len(SnapFileTable) - 2)

\* the Path object of a file, for should_protect_file and calculate_file_weight
AbsPath(f) == BaseDir \o SnapFileTable[f].path

FileRec(f) ==
    LET e == SnapFileTable[f]
    IN  [name |-> e.path[Len(e.path)], age_stat_ok |-> e.age_stat_ok,
         size_stat_ok |-> e.size_stat_ok, mtime |-> e.mtime, size |-> e.size]

\* get_files(directory, recursive): the files under the directory as a flat
\* sequence
RECURSIVE GetFiles(_)
GetFiles(on_disk) ==
    IF on_disk = {} THEN <<>>
    ELSE LET f == CHOOSE x \in on_disk : \A y \in on_disk : x <= y
         IN  <<f>> \o GetFiles(on_disk \ {f})

\* not no_protect and should_protect_file(file, base_path, protected_patterns)
SnapProtects(f, np, patterns) == ~np /\ ShouldProtectFile(AbsPath(f), BaseDir, patterns)

\* the loop that splits all_files into files and protected_files
RECURSIVE ProtectedOf(_, _, _)
ProtectedOf(all, np, patterns) ==
    IF all = <<>> THEN <<>>
    ELSE (IF SnapProtects(all[1], np, patterns) THEN <<all[1]>> ELSE <<>>)
             \o ProtectedOf(Tail(all), np, patterns)

EligibleOfAll(all, np, patterns) == all
RECURSIVE EligibleOf(_, _, _)
EligibleOf(all, np, patterns) ==
    IF all = <<>> THEN <<>>
    ELSE (IF SnapProtects(all[1], np, patterns) THEN <<>> ELSE <<all[1]>>)
             \o EligibleOf(Tail(all), np, patterns)

\* [calculate_file_weight(f, weights_config) for f in files]
WeightsOf(fs, cfg) == [i \in 1..Len(fs) |-> CalculateFileWeight(FileRec(fs[i]), cfg, NowSeconds)]

\* thanos init (cli.py): the lines of the .thanosignore it writes
InitThanosignoreLines ==
    << <<"#", " ", "T", "h", "a", "n", "o", "s", " ", "I", "g", "n", "o", "r", "e", " ", "F", "i",
         "l", "e">>,
       <<"#", " ", "U", "s", "e", "s", " ", "g", "i", "t", "i", "g", "n", "o", "r", "e", "-",
         "s", "t", "y", "l", "e", " ", "p", "a", "t", "t", "e", "r", "n", " ", "m", "a", "t",
         "c", "h", "i", "n", "g">>,
       <<"#", " ", "h", "t", "t", "p", "s", ":", "/", "/", "g", "i", "t", "-", "s", "c", "m",
         ".", "c", "o", "m", "/", "d", "o", "c", "s", "/", "g", "i", "t", "i", "g", "n", "o",
         "r", "e">>,
       <<>>,
       <<"#", " ", "I", "m", "p", "o", "r", "t", "a", "n", "t", " ", "d", "i", "r", "e", "c",
         "t", "o", "r", "i", "e", "s", " ", "(", "t", "r", "a", "i", "l", "i", "n", "g", " ",
         "s", "l", "a", "s", "h", " ", "m", "a", "t", "c", "h", "e", "s", " ", "d", "i", "r",
         "e", "c", "t", "o", "r", "i", "e", "s", ")">>,
       <<"i", "m", "p", "o", "r", "t", "a", "n", "t", "/">>,
       <<"b", "a", "c", "k", "u", "p", "/">>,
       <<"d", "o", "c", "s", "/">>,
       <<>>,
       <<"#", " ", "P", "y", "t", "h", "o", "n">>,
       <<"v", "e", "n", "v", "/">>,
       <<".", "v", "e", "n", "v", "/">>,
       <<"_", "_", "p", "y", "c", "a", "c", "h", "e", "_", "_", "/">>,
       <<"*", ".", "p", "y", "c">>,
       <<>>,
       <<"#", " ", "N", "o", "d", "e", ".", "j", "s">>,
       <<"n", "o", "d", "e", "_", "m", "o", "d", "u", "l", "e", "s", "/">>,
       <<>>,
       <<"#", " ", "D", "a", "t", "a", "b", "a", "s", "e", " ", "f", "i", "l", "e", "s">>,
       <<"*", ".", "d", "b">>,
       <<"*", ".", "s", "q", "l", "i", "t", "e">>,
       <<>>,
       <<"#", " ", "I", "m", "p", "o", "r", "t", "a", "n", "t", " ", "d", "a", "t", "a", " ",
         "f", "i", "l", "e", "s", " ", "(", "w", "i", "l", "d", "c", "a", "r", "d", "s", " ",
         "w", "o", "r", "k", " ", "l", "i", "k", "e", " ", "g", "i", "t", "i", "g", "n", "o",
         "r", "e", ")">>,
       <<"*", "-", "i", "m", "p", "o", "r", "t", "a", "n", "t", ".", "*">>,
       <<"*", "-", "b", "a", "c", "k", "u", "p", ".", "*">>,
       <<>>,
       <<"#", " ", "S", "p", "e", "c", "i", "f", "i", "c", " ", "f", "i", "l", "e", "s">>,
       <<"s", "e", "c", "r", "e", "t", "s", ".", "j", "s", "o", "n">>,
       <<"c", "r", "e", "d", "e", "n", "t", "i", "a", "l", "s", ".", "y", "a", "m", "l">>,
       <<>>,
       <<"#", " ", "T", "h", "a", "n", "o", "s", " ", "s", "h", "o", "u", "l", "d", "n", "'",
         "t", " ", "s", "n", "a", "p", " ", "h", "i", "m", "s", "e", "l", "f">>,
       <<".", "t", "h", "a", "n", "o", "s", "i", "g", "n", "o", "r", "e">>,
       <<".", "t", "h", "a", "n", "o", "s", "r", "c", ".", "j", "s", "o", "n">> >>

\* the by_extension table of the .thanosrc.json it writes
InitExtTable ==
    << <<<<".", "l", "o", "g">>, W(90)>>,
       <<<<".", "t", "m", "p">>, W(95)>>,
       <<<<".", "c", "a", "c", "h", "e">>, W(95)>>,
       <<<<".", "b", "a", "k">>, W(80)>>,
       <<<<".", "o", "l", "d">>, W(80)>>,
       <<<<".", "p", "y">>, W(30)>>,
       <<<<".", "j", "s">>, W(30)>>,
       <<<<".", "d", "b">>, W(10)>>,
       <<<<".", "j", "s", "o", "n">>, W(20)>> >>

InitThanosrc == [k \in {"weights"} |-> [j \in {"by_extension"} |-> InitExtTable]]

\* the early return, were it taken only when no file at all is eligible
NoEligibleFilesZeroOnly(total_files) == total_files = 0

\* if total_files <= 1: ... return
NoEligibleFiles(total_files) == total_files <= 1

\* From the call to the selection: seeding, the pattern set, the config, the
\* enumeration, the filter, the early return and the elimination count.
SnapLoad ==
    /\ pc = "snap_start"
    /\ SeedRng(seed)
    /\ LET patterns == ProtectedPatterns(no_protect, ignore_file)
           cfg == GetWeights(thanosrc)
           all == GetFiles(disk)
           eligible == EligibleOf(all, no_protect, patterns)
           total_files == Len(eligible)
       IN  /\ protected_patterns' = patterns
           /\ weights_config' = cfg
           /\ use_weights' = UseWeights(cfg)
           /\ all_files' = all
           /\ files' = eligible
           /\ protected_files' = ProtectedOf(all, no_protect, patterns)
           /\ IF NoEligibleFiles(total_files)
              THEN /\ pc' = "done_no_eligible"
                   /\ UNCHANGED sampleVars
              ELSE IF UseWeights(cfg)
              THEN /\ SampleEnter(eligible, WeightsOf(eligible, cfg),
                                  FilesToEliminate(total_files))
                   /\ pc' = "sample_loop"
              ELSE /\ pc' = "select_uniform"
                   /\ UNCHANGED sampleVars
    /\ UNCHANGED <<disk, disk_at_start, dry_run, no_protect, ignore_file, thanosrc,
                   parent_ignore_file, parent_thanosrc,
                   confirm_input, eliminated, unlink_i, eliminated_count,
                   failed_count, runVars, weightVars, protectVars, findVars>>

\* thanos init: writes .thanosignore and .thanosrc.json into the directory,
\* each unless it exists there.  From then on they are the nearest config
\* files of the directory, and two more of its files.
CliInit ==
    /\ pc = "snap_start"
    /\ disk' = disk \cup ConfigFileIds
    /\ disk_at_start' = disk \cup ConfigFileIds
    /\ ignore_file' = IF Id_thanosignore \in disk THEN ignore_file
                      ELSE Some(InitThanosignoreLines)
    /\ thanosrc' = IF Id_thanosrc \in disk THEN thanosrc ELSE InitThanosrc
    /\ pc' = "snap_start"
    /\ UNCHANGED <<dry_run, no_protect, parent_ignore_file, parent_thanosrc,
                   confirm_input, protected_patterns,
                   weights_config, use_weights, all_files, files, protected_files,
                   eliminated, unlink_i, eliminated_count, failed_count,
                   sampleVars, rngVars, runVars, weightVars, protectVars, findVars>>

\* the balance table, then the dry-run report and return, or the list of files
\* and the confirmation prompt
SnapReport ==
    /\ pc = "selected"
    /\ pc' = IF dry_run THEN "done_dry_run" ELSE "confirm"
    /\ UNCHANGED <<sampleVars, rngVars, runVars, weightVars, protectVars, findVars, snapVars>>

ConfirmInputs ==
    {Str_snap, <<"S", "N", "A", "P">>, <<"S", "n", "a", "p">>, <<"n", "o">>,
     <<"s", "n", "a", "p", " ">>, <<>>}

\* confirm = console.input(...); a text other than snap cancels
SnapConfirm ==
    /\ pc = "confirm"
    /\ \E text \in ConfirmInputs :
        /\ confirm_input' = Some(text)
        /\ pc' = IF Confirmed(text) THEN "unlink_loop" ELSE "done_cancelled"
    /\ unlink_i' = 0
    /\ eliminated_count' = 0
    /\ failed_count' = 0
    /\ UNCHANGED <<disk, disk_at_start, dry_run, no_protect, ignore_file, thanosrc,
                   parent_ignore_file, parent_thanosrc,
                   protected_patterns, weights_config, use_weights, all_files, files,
                   protected_files, eliminated,
                   sampleVars, rngVars, runVars, weightVars, protectVars, findVars>>

\* what find_config_file gives the loaders when the files d are in the
\* directory: the directory's own config file while it exists, otherwise the
\* one of a parent directory, or none
NearestIgnoreFile(d) ==
    IF Id_thanosignore \in d THEN ignore_file ELSE parent_ignore_file
NearestThanosrc(d) ==
    IF Id_thanosrc \in d THEN thanosrc ELSE parent_thanosrc

\* the loop body, were a failed unlink to end the loop
SnapUnlinkAbortOnFailure ==
    /\ pc = "unlink_loop"
    /\ unlink_i < Len(eliminated)
    /\ unlink_i' = unlink_i + 1
    /\ LET file == eliminated[unlink_i + 1]
       IN  \/ /\ file \in disk
              /\ disk' = disk \ {file}
              /\ eliminated_count' = eliminated_count + 1
              /\ pc' = "unlink_loop"
              /\ UNCHANGED failed_count
           \/ /\ failed_count' = failed_count + 1
              /\ pc' = "done_complete"
              /\ UNCHANGED <<disk, eliminated_count>>
    /\ ignore_file' = NearestIgnoreFile(disk')
    /\ thanosrc' = NearestThanosrc(disk')
    /\ UNCHANGED <<disk_at_start, dry_run, no_protect,
                   parent_ignore_file, parent_thanosrc,
                   confirm_input, protected_patterns, weights_config, use_weights, all_files,
                   files, protected_files, eliminated,
                   sampleVars, rngVars, runVars, weightVars, protectVars, findVars>>

\* one iteration of for file in eliminated: unlink succeeds, or raises and is
\* counted as failed
SnapUnlink ==
    /\ pc = "unlink_loop"
    /\ unlink_i < Len(eliminated)
    /\ unlink_i' = unlink_i + 1
    /\ pc' = "unlink_loop"
    /\ LET file == eliminated[unlink_i + 1]
       IN  \/ /\ file \in disk
              /\ disk' = disk \ {file}
              /\ eliminated_count' = eliminated_count + 1
              /\ UNCHANGED failed_count
           \/ /\ failed_count' = failed_count + 1
              /\ UNCHANGED <<disk, eliminated_count>>
    /\ ignore_file' = NearestIgnoreFile(disk')
    /\ thanosrc' = NearestThanosrc(disk')
    /\ UNCHANGED <<disk_at_start, dry_run, no_protect,
                   parent_ignore_file, parent_thanosrc,
                   confirm_input, protected_patterns, weights_config, use_weights, all_files,
                   files, protected_files, eliminated,
                   sampleVars, rngVars, runVars, weightVars, protectVars, findVars>>

\* the loop is over: the final summary
SnapFinish ==
    /\ pc = "unlink_loop"
    /\ unlink_i >= Len(eliminated)
    /\ pc' = "done_complete"
    /\ UNCHANGED <<sampleVars, rngVars, runVars, weightVars, protectVars, findVars, snapVars>>

\* .thanosignore: absent; only a comment and a blank line; two patterns
IgnoreFiles ==
    {None,
     Some(<< <<"#", " ", "x">>, <<" ">> >>),
     Some(<< Pat_star_log, <<"#">>, <<" ">> \o Seg_src \o <<"/", " ">> >>)}

\* the config of .thanosrc.json: none; extension weights; all three tables
ThanosrcConfigs ==
    {<<>>,
     [k \in {"weights"} |-> [j \in {"by_extension"} |-> ExtTableBoth]],
     [k \in {"weights"} |->
        [j \in ConfigKeys |-> CASE j = "by_extension" -> ExtTableLog
                                [] j = "by_age_days" -> AgeTable
                                [] j = "by_size_mb" -> SizeTable]]}

InitSnap ==
    /\ pc = "snap_start"
    /\ disk \in SUBSET SnapFileIds
    /\ disk_at_start = disk
    /\ dry_run \in BOOLEAN
    /\ no_protect \in BOOLEAN
    /\ ignore_file \in IgnoreFiles
    /\ thanosrc \in ThanosrcConfigs
    /\ parent_ignore_file = ignore_file
    /\ parent_thanosrc = thanosrc
    /\ seed \in {None, Some(0)}
    /\ call_no = 1
    /\ first_result = NoSample
    /\ IdleSnapLocals
    /\ IdleSample /\ IdleRng /\ IdleWeight /\ IdleProtect /\ IdleFind

NextSnap ==
    \/ CliInit
    \/ SnapLoad
    \/ SnapSelectUniform
    \/ SnapSelectUniformReturn
    \/ SampleIterate
    \/ SampleReturn
    \/ SnapSelectWeighted
    \/ SnapReport
    \/ SnapConfirm
    \/ SnapUnlink
    \/ SnapFinish

SpecSnap == InitSnap /\ [][NextSnap]_vars

-----------------------------------------------------------------------------
(* SpecOldSnap: one call of the older snap command (thanos/cli.py), which   *)
(* takes no seed, reads no config file and protects nothing.                *)

InitOldSnap ==
    /\ pc = "old_start"
    /\ disk \in SUBSET SnapFileIds
    /\ disk_at_start = disk
    /\ dry_run \in BOOLEAN
    /\ no_protect = FALSE /\ ignore_file = None /\ thanosrc = <<>>
    /\ parent_ignore_file = None /\ parent_thanosrc = <<>>
    /\ IdleSnapLocals
    /\ IdleSample /\ IdleRng /\ IdleRun /\ IdleWeight /\ IdleProtect /\ IdleFind

\* files = get_files(...); if total_files == 0: return
OldSnapLoad ==
    /\ pc = "old_start"
    /\ files' = GetFiles(disk)
    /\ pc' = IF Len(GetFiles(disk)) = 0 THEN "old_done_empty" ELSE "old_select"
    /\ UNCHANGED <<disk, disk_at_start, dry_run, no_protect, ignore_file, thanosrc,
                   parent_ignore_file, parent_thanosrc,
                   confirm_input, protected_patterns, weights_config, use_weights,
                   all_files, protected_files, eliminated, unlink_i, eliminated_count,
                   failed_count, sampleVars, rngVars, runVars, weightVars, protectVars,
                   findVars>>

\* eliminated = random.sample(files, files_to_eliminate): one pick
OldSnapSelect ==
    /\ pc = "old_select"
    /\ UniformDraw
    /\ pc' = "old_select"
    /\ UNCHANGED <<disk, disk_at_start, dry_run, no_protect, ignore_file, thanosrc,
                   parent_ignore_file, parent_thanosrc,
                   confirm_input, protected_patterns, weights_config, use_weights,
                   all_files, files, protected_files, unlink_i, eliminated_count,
                   failed_count, sampleVars, runVars, weightVars, protectVars, findVars>>

\* random.sample returns; the assessment is printed; a dry run lists the files
\* and returns
OldSnapReport ==
    /\ pc = "old_select"
    /\ UniformDone
    /\ pc' = IF dry_run THEN "old_done_dry_run" ELSE "old_confirm"
    /\ UNCHANGED <<sampleVars, rngVars, runVars, weightVars, protectVars, findVars, snapVars>>

\* confirm = input(...); a text other than snap cancels
OldSnapConfirm ==
    /\ pc = "old_confirm"
    /\ \E text \in ConfirmInputs :
        /\ confirm_input' = Some(text)
        /\ pc' = IF Confirmed(text) THEN "old_unlink_loop" ELSE "old_done_cancelled"
    /\ unlink_i' = 0
    /\ eliminated_count' = 0
    /\ UNCHANGED <<disk, disk_at_start, dry_run, no_protect, ignore_file, thanosrc,
                   parent_ignore_file, parent_thanosrc,
                   protected_patterns, weights_config, use_weights, all_files, files,
                   protected_files, eliminated, failed_count,
                   sampleVars, rngVars, runVars, weightVars, protectVars, findVars>>

\* one iteration of for file in eliminated: unlink succeeds and is counted, or
\* raises and is reported
OldSnapUnlink ==
    /\ pc = "old_unlink_loop"
    /\ unlink_i < Len(eliminated)
    /\ unlink_i' = unlink_i + 1
    /\ pc' = "old_unlink_loop"
    /\ LET file == eliminated[unlink_i + 1]
       IN  \/ /\ file \in disk
              /\ disk' = disk \ {file}
              /\ eliminated_count' = eliminated_count + 1
           \/ UNCHANGED <<disk, eliminated_count>>
    /\ ignore_file' = NearestIgnoreFile(disk')
    /\ thanosrc' = NearestThanosrc(disk')
    /\ UNCHANGED <<disk_at_start, dry_run, no_protect,
                   parent_ignore_file, parent_thanosrc,
                   confirm_input, protected_patterns, weights_config, use_weights,
                   all_files, files, protected_files, eliminated, failed_count,
                   sampleVars, rngVars, runVars, weightVars, protectVars, findVars>>

\* the loop is over: the final summary
OldSnapFinish ==
    /\ pc = "old_unlink_loop"
    /\ unlink_i >= Len(eliminated)
    /\ pc' = "old_done_complete"
    /\ UNCHANGED <<sampleVars, rngVars, runVars, weightVars, protectVars, findVars, snapVars>>

NextOldSnap ==
    \/ OldSnapLoad
    \/ OldSnapSelect
    \/ OldSnapReport
    \/ OldSnapConfirm
    \/ OldSnapUnlink
    \/ OldSnapFinish

SpecOldSnap == InitOldSnap /\ [][NextOldSnap]_vars

\* one call of either snap command
SpecSnapCommands == (InitSnap \/ InitOldSnap) /\ [][NextSnap \/ NextOldSnap]_vars

\* The older command halves as well: a confirmed run in which every unlink
\* succeeded has deleted floor(n/2) of the n files it found; it returns early
\* only for n = 0 and asks for confirmation even when it selected no file.
OldSnapDeletesHalf ==
    LET n == Cardinality(disk_at_start)
    IN  /\ (pc = "old_done_complete" /\ eliminated_count = Len(eliminated)) =>
            /\ Cardinality(disk_at_start \ disk) = n \div 2
            /\ Cardinality(disk) = n - (n \div 2)
        /\ pc = "old_done_empty" <=> (pc /= "old_start" /\ n = 0)
        /\ (dry_run \/ pc = "old_done_cancelled") => disk = disk_at_start

-----------------------------------------------------------------------------
(* Claims about snap *)

\* the files snap found that the pattern set protects
ProtectedAtStart ==
    {f \in disk_at_start :
        ShouldProtectFile(AbsPath(f), BaseDir, ProtectedPatterns(no_protect, ignore_file))}

\* the files snap found that are eligible
EligibleAtStart ==
    IF no_protect THEN disk_at_start ELSE disk_at_start \ ProtectedAtStart

\* C2: with no_protect false, no file that should_protect_file protects is
\* selected for elimination or unlinked, on the weighted and on the uniform path.
C2_ProtectedNeverUnlinked ==
    ~no_protect =>
        /\ ProtectedAtStart \subseteq disk
        /\ Range(eliminated) \cap ProtectedAtStart = {}
        /\ Range(eliminated) \cap Range(protected_files) = {}
        /\ pc /= "snap_start" => Range(protected_files) = ProtectedAtStart

C2_Witness ==
    /\ pc = "done_complete" /\ ~no_protect
    /\ UseWeights(weights_config)
    /\ Len(protected_files) = 2 /\ eliminated_count = 1 /\ Len(files) = 3

\* C3: a confirmed run that is no dry run and in which every unlink succeeded
\* has deleted exactly floor(n/2) of the n eligible files and left the other
\* n - floor(n/2); a run that found at most one eligible file deleted none.
\* The same holds of the older command, for which every file is eligible.
C3_DeletesHalf ==
    LET n == Cardinality(EligibleAtStart)
        m == Cardinality(disk_at_start)
    IN  /\ (pc = "done_complete" /\ failed_count = 0) =>
            /\ Cardinality(EligibleAtStart \ disk) = n \div 2
            /\ Cardinality(EligibleAtStart \cap disk) = n - (n \div 2)
            /\ eliminated_count = n \div 2
            /\ disk_at_start \ disk \subseteq EligibleAtStart
        /\ pc = "done_no_eligible" => (n <= 1 /\ disk = disk_at_start)
        /\ (pc = "old_done_complete" /\ eliminated_count = Len(eliminated)) =>
            /\ Cardinality(disk_at_start \ disk) = m \div 2
            /\ Cardinality(disk) = m - (m \div 2)
            /\ eliminated_count = m \div 2

C3_Witness ==
    /\ pc = "done_complete" /\ failed_count = 0
    /\ UseWeights(weights_config)
    /\ Cardinality(EligibleAtStart) = 5 /\ eliminated_count = 2
    /\ Cardinality(disk) = 3

\* C4: a file is unlinked only when dry_run is false and the confirmation text,
\* lower-cased, is snap; a dry run and a run with any other text leave the files
\* on disk as they were.
C4_UnlinkOnlyConfirmed ==
    LET confirmed == confirm_input /= None /\ Lower(confirm_input[1]) = Str_snap
    IN  /\ (disk /= disk_at_start \/ pc = "unlink_loop" \/ pc = "done_complete")
              => (~dry_run /\ confirmed)
        /\ (dry_run \/ pc = "done_dry_run" \/ pc = "done_cancelled")
              => disk = disk_at_start
        /\ pc = "done_cancelled" => ~confirmed

C4_Witness ==
    /\ pc = "done_complete" /\ ~dry_run
    /\ confirm_input = Some(<<"S", "n", "a", "p">>)
    /\ disk /= disk_at_start

-----------------------------------------------------------------------------
(* Claims about should_protect_file *)

IsOutside(path, base) ==
    ~(Len(base) <= Len(path) /\ \A i \in 1..Len(base) : path[i] = base[i])

\* C5: for every path outside the base directory should_protect_file returns
\* true, whatever the pattern set (the empty one included), as a returned
\* value and not by raising.
C5_OutsideAlwaysProtected ==
    (pc = "protect_done" /\ IsOutside(p_file, p_base)) => p_result = TRUE

\* the path /home/proj/app.log lies outside the base /tmp and the pattern set
\* is empty: the check of the pattern set comes first and the answer is false
C5_Witness ==
    /\ pc = "protect_done"
    /\ p_base = <<Seg_tmp>> /\ p_file = BaseDir \o <<Name_app_log>>
    /\ IsOutside(p_file, p_base)
    /\ p_patterns = {}
    /\ p_result = FALSE

\* what does hold: with a non-empty pattern set every path outside the base
\* directory is protected, as a returned value
OutsideProtectedNonEmpty ==
    (pc = "protect_done" /\ IsOutside(p_file, p_base) /\ p_patterns /= {})
        => p_result = TRUE

\* C6: with an empty pattern set should_protect_file returns false for every
\* path and every base directory.
C6_EmptyPatternsNeverProtect ==
    (pc = "protect_done" /\ p_patterns = {}) => p_result = FALSE

C6_Witness ==
    /\ pc = "protect_done" /\ p_patterns = {}
    /\ p_base = BaseDir /\ p_file = BaseDir \o <<Name_env>>
    /\ p_result = FALSE

-----------------------------------------------------------------------------
(* Claims about calculate_file_weight *)

ConfigOf(ext, age, size) ==
    [k \in ConfigKeys |-> CASE k = "by_extension" -> ext
                            [] k = "by_age_days" -> age
                            [] k = "by_size_mb" -> size]

AgedDays(file, d) == file.age_stat_ok /\ w_now - file.mtime = d * SecondsPerDay

SizedMB(file, m) == file.size_stat_ok /\ file.size = m * BytesPerMB

\* C9: the result is the arithmetic mean of the values the matching sub-tables
\* contributed: one value is returned as it is, two or three are averaged.
C9_MeanOfContributions ==
    pc = "weight_done" =>
        /\ w_contribs /= <<>> => w_result * Len(w_contribs) = SumSeq(w_contribs)
        /\ Len(w_contribs) = 1 => w_result = w_contribs[1]
        /\ Len(w_contribs) <= 3
        \* .log -> 0.9, 15 days -> 0.5, 5 MB -> 0.7: the mean is 0.7
        /\ (/\ w_config = ConfigOf(ExtTableLog, AgeTable, SizeTable)
            /\ w_file.name = Name_app_log
            /\ AgedDays(w_file, 15) /\ SizedMB(w_file, 5)) => w_result = W(70)
        \* 15 days -> 0.5, 5 MB -> 0.7: the mean is 0.6
        /\ (/\ DOMAIN w_config = {"by_age_days", "by_size_mb"}
            /\ w_config["by_age_days"] = AgeTable
            /\ w_config["by_size_mb"] = SizeTable
            /\ AgedDays(w_file, 15) /\ SizedMB(w_file, 5)) => w_result = W(60)

C9_Witness ==
    /\ pc = "weight_done"
    /\ w_contribs = <<W(90), W(50), W(70)>>
    /\ w_result = W(70)

\* no selector of a sub-table of the config matches the file
NoSelectorMatches ==
    LET ext == GetTable(w_config, "by_extension")
        age == GetTable(w_config, "by_age_days")
        size == GetTable(w_config, "by_size_mb")
    IN  /\ \A i \in 1..Len(ext) : ext[i][1] /= Suffix(w_file.name)
        /\ \A i \in 1..Len(age) :
              MatchesAgeRange(<<w_now - w_file.mtime, SecondsPerDay>>, age[i][1]) /= "True"
        /\ \A i \in 1..Len(size) :
              MatchesSizeRange(<<w_file.size, BytesPerMB>>, size[i][1]) /= "True"

\* C10: the result is exactly 0.5 when the config is empty, and when no selector
\* of any sub-table of the config matches the file.
C10_NeutralDefault ==
    pc = "weight_done" =>
        /\ DOMAIN w_config = {} => w_result = Half
        /\ NoSelectorMatches => w_result = Half

C10_Witness ==
    /\ pc = "weight_done"
    /\ DOMAIN w_config = {"by_extension"}
    /\ w_config["by_extension"] = ExtTableLog
    /\ w_file.name = Name_test_txt
    /\ w_result = Half

-----------------------------------------------------------------------------
(* SpecRange: one call of _matches_age_range or _matches_size_range *)

MaxRangeLen == 4

\* the characters range strings are built from: two digits, the two range
\* signs, the decimal point, a blank and a letter
RangeAlphabet == {"1", "5", "-", "+", ".", " ", "x"}

RangeStrings == UNION {[1..n -> RangeAlphabet] : n \in 0..MaxRangeLen}

\* the numbers tested: 0, 1, 1.5, 5, and -1 (an mtime in the future)
RangeXs == {<<0, 1>>, <<1, 1>>, <<3, 2>>, <<5, 1>>, <<0 - 1, 1>>}

InitRange ==
    /\ pc = "range_call"
    /\ r_x \in RangeXs
    /\ r_range \in RangeStrings
    /\ r_result = NoResult
    /\ w_file = NoFile /\ w_config = <<>> /\ w_now = 0
    /\ w_contribs = <<>> /\ w_result = NoResult
    /\ IdleSample /\ IdleRng /\ IdleRun /\ IdleProtect /\ IdleFind /\ IdleSnap

AgeRangeCall ==
    /\ pc = "range_call"
    /\ r_result' = MatchesAgeRange(r_x, r_range)
    /\ pc' = "range_done"
    /\ UNCHANGED <<r_x, r_range, w_file, w_config, w_now, w_contribs, w_result,
                   sampleVars, rngVars, runVars, protectVars, findVars, snapVars>>

SizeRangeCall ==
    /\ pc = "range_call"
    /\ r_result' = MatchesSizeRange(r_x, r_range)
    /\ pc' = "range_done"
    /\ UNCHANGED <<r_x, r_range, w_file, w_config, w_now, w_contribs, w_result,
                   sampleVars, rngVars, runVars, protectVars, findVars, snapVars>>

NextRange == AgeRangeCall \/ SizeRangeCall

SpecRange == InitRange /\ [][NextRange]_vars

-----------------------------------------------------------------------------
(* Claims about the range predicates *)

\* a number, as the language reads one
IsNumber(str) == ParseFloat(str).ok
NumberOf(str) == <<ParseFloat(str).num, ParseFloat(str).den>>

\* "<min>+" or "<min>-": x >= min
GrammarOpenEnded(x, s) ==
    /\ EndsWith(s, "+") \/ EndsWith(s, "-")
    /\ IsNumber(SubSeq(s, 1, Len(s) - 1))
    /\ FracLeq(NumberOf(SubSeq(s, 1, Len(s) - 1)), x)

\* "<min>-<max>": min <= x < max
GrammarBounded(x, s) ==
    \E i \in 1..Len(s) :
        /\ s[i] = "-"
        /\ IsNumber(SubSeq(s, 1, i - 1)) /\ IsNumber(SubSeq(s, i + 1, Len(s)))
        /\ FracLeq(NumberOf(SubSeq(s, 1, i - 1)), x)
        /\ FracLt(x, NumberOf(SubSeq(s, i + 1, Len(s))))

GrammarMatches(x, range_str) ==
    GrammarOpenEnded(x, Strip(range_str)) \/ GrammarBounded(x, Strip(range_str))

\* C11: the range predicates follow the grammar: "<min>-<max>" matches exactly
\* when min <= x < max, "<min>+" and "<min>-" exactly when x >= min, and every
\* other form is a non-match: the predicate answers, and answers True exactly
\* for the strings and numbers the grammar admits.
C11_RangeGrammar ==
    pc = "range_done" =>
        r_result = (IF GrammarMatches(r_x, r_range) THEN "True" ELSE "False")

\* a selector that has a range sign but no number before it has been tested
C11_Witness ==
    /\ pc = "range_done"
    /\ r_range = <<"x", "+">>
    /\ r_result = "ValueError"

-----------------------------------------------------------------------------
(* Claims about malformed selectors and failed metadata reads *)

\* a selector that does not parse as a numeric range: the predicate has no
\* numbers to compare
Malformed(range_str) ==
    LET s == Strip(range_str)
    IN  /\ ~(\E i \in 1..Len(s) : /\ s[i] = "-"
                                   /\ IsNumber(SubSeq(s, 1, i - 1))
                                   /\ IsNumber(SubSeq(s, i + 1, Len(s))))
        /\ ~(/\ EndsWith(s, "+") \/ EndsWith(s, "-")
             /\ IsNumber(SubSeq(s, 1, Len(s) - 1)))

\* the scan of a sub-table the claim describes: a malformed selector is a
\* non-match, and the scan goes on to the selectors after it
RECURSIVE ScanSkippingMalformed(_, _)
ScanSkippingMalformed(x, table) ==
    IF table = <<>> THEN <<>>
    ELSE IF ~Malformed(table[1][1]) /\ MatchesRange(x, table[1][1]) = "True"
         THEN <<table[1][2]>>
         ELSE ScanSkippingMalformed(x, Tail(table))

HasMalformed(table) == \E i \in 1..Len(table) : Malformed(table[i][1])

AgeOf(file, now) == <<now - file.mtime, SecondsPerDay>>
SizeOf(file) == <<file.size, BytesPerMB>>

\* C12: a malformed range selector never matches and is not fatal: the
\* selectors after it in the same sub-table are still evaluated, so the
\* sub-table contributes the weight of its first well-formed matching selector.
C12_MalformedSelectorSkipped ==
    (pc = "weight_done" /\ w_file.age_stat_ok /\ w_file.size_stat_ok) =>
        w_contribs =
            ExtContrib(w_file, GetTable(w_config, "by_extension"))
                \o ScanSkippingMalformed(AgeOf(w_file, w_now),
                                         GetTable(w_config, "by_age_days"))
                \o ScanSkippingMalformed(SizeOf(w_file),
                                         GetTable(w_config, "by_size_mb"))

\* {"x+": 0.1, " 0-7 ": 0.2, "7-": 0.8} has been applied to a file 15 days old
C12_Witness ==
    /\ pc = "weight_done"
    /\ DOMAIN w_config = {"by_age_days"} /\ w_config["by_age_days"] = AgeTableBad
    /\ w_file.age_stat_ok /\ AgedDays(w_file, 15)
    /\ w_result = Half

\* the config without one of its sub-tables
Without(cfg, key) == [k \in (DOMAIN cfg) \ {key} |-> cfg[k]]

\* C13: when stat fails during calculate_file_weight, only the sub-table that
\* needed it is skipped: the call returns a weight, the one the config without
\* that sub-table gives (the mean of the remaining contributions, the
\* extension weight alone when that is all there is, 0.5 when there are none).
C13_StatFailureSkipsSubTable ==
    pc = "weight_done" =>
        /\ w_result \in 0..One
        /\ ~w_file.age_stat_ok =>
            w_result = CalculateFileWeight(w_file, Without(w_config, "by_age_days"), w_now)
        /\ ~w_file.size_stat_ok =>
            w_result = CalculateFileWeight(w_file, Without(w_config, "by_size_mb"), w_now)
        /\ (/\ ~w_file.age_stat_ok
            /\ DOMAIN w_config = {"by_extension", "by_age_days"}
            /\ w_config["by_extension"] = ExtTableBoth
            /\ w_file.name = Name_test_txt) => w_result = W(30)
        /\ (~w_file.age_stat_ok /\ DOMAIN w_config = {"by_age_days"}) => w_result = Half

\* {"by_extension": {".log": 0.9, ".txt": 0.3}, "by_age_days": {...}} has been
\* applied to test.txt, whose stat failed
C13_Witness ==
    /\ pc = "weight_done"
    /\ ~w_file.age_stat_ok
    /\ DOMAIN w_config = {"by_extension", "by_age_days"}
    /\ w_config["by_extension"] = ExtTableBoth /\ w_config["by_age_days"] = AgeTable
    /\ w_file.name = Name_test_txt
    /\ w_result = W(30)

-----------------------------------------------------------------------------
(* Claims about the sampler's inputs *)

\* C14: with items and weights of different lengths the sampler fails fast: it
\* raises before selecting anything, so it never returns a selection.
C14_MismatchFailsFast ==
    ~SameLength => ~(pc = "sample_done" /\ s_result /= <<>>)

\* three items, one weight, k = 1: the call has returned the first item
C14_Witness ==
    /\ pc = "sample_done"
    /\ Len(s_files) = 3 /\ s_weights = <<One>> /\ s_k = 1
    /\ s_result = <<1>>

-----------------------------------------------------------------------------
(* Claims about the four pattern forms *)

\* the segments of the file's path below the base (the file is inside the base)
RelSegments == SubSeq(p_file, Len(p_base) + 1, Len(p_file))

Inside == ~IsOutside(p_file, p_base)

FileName == RelSegments[Len(RelSegments)]

\* the forms of a pattern, read off its text
IsDirectoryPattern(pat) == pat /= <<>> /\ pat[Len(pat)] = "/"
IsLiteralPattern(pat) ==
    /\ pat /= <<>> /\ pat[Len(pat)] /= "/"
    /\ \A i \in 1..Len(pat) : pat[i] /= "*"
IsWildcardPattern(pat) ==
    /\ pat /= <<>> /\ pat[Len(pat)] /= "/"
    /\ \E i \in 1..Len(pat) : pat[i] = "*"
    /\ \A i \in 1..(Len(pat) - 1) : ~(pat[i] = "*" /\ pat[i + 1] = "*")

\* the directory a directory pattern names
DirName(pat) == SubSeq(pat, 1, Len(pat) - 1)

\* name has the text of pat, where pat has one "*" that stands for any run of
\* characters
StarMatch(pat, name) ==
    \E i \in 1..Len(pat) :
        /\ pat[i] = "*"
        /\ Len(name) >= Len(pat) - 1
        /\ SubSeq(name, 1, i - 1) = SubSeq(pat, 1, i - 1)
        /\ SubSeq(name, Len(name) - (Len(pat) - i) + 1, Len(name))
               = SubSeq(pat, i + 1, Len(pat))

\* C15: a directory pattern protects every file that has the named directory
\* among the directories of its relative path, at any depth below it and
\* wherever the directory sits under the base.
C15_DirectoryPatternAnyDepth ==
    (pc = "protect_done" /\ Inside) =>
        \A pat \in p_patterns :
            (/\ IsDirectoryPattern(pat)
             /\ \E i \in 1..(Len(RelSegments) - 1) : RelSegments[i] = DirName(pat))
                => p_result = TRUE

\* {"node_modules/"} and node_modules/pkg/lib/index.js
C15_Witness ==
    /\ pc = "protect_done"
    /\ p_base = BaseDir
    /\ p_file = BaseDir \o <<Seg_node_modules, Seg_pkg, Seg_lib, Name_index_js>>
    /\ p_patterns = {Pat_node_modules_dir}
    /\ p_result = TRUE

\* C16: for a non-empty pattern set and a path inside the base, a segment
\* (directory name or file name) equal to a literal pattern of the set protects
\* the file, whatever the deeper segments are.
C16_LiteralSegmentProtects ==
    (pc = "protect_done" /\ Inside /\ p_patterns /= {}) =>
        \A pat \in p_patterns :
            (IsLiteralPattern(pat) /\ \E i \in 1..Len(RelSegments) : RelSegments[i] = pat)
                => p_result = TRUE

\* {"src"} and src/pkg/c.pyc: the directory segment is the literal pattern
C16_Witness ==
    /\ pc = "protect_done"
    /\ p_base = BaseDir
    /\ p_file = BaseDir \o <<Seg_src, Seg_pkg, Name_c_pyc>>
    /\ p_patterns = {Pat_src}
    /\ p_result = TRUE

\* C17: a wildcard pattern is a glob for the final segment: with wildcard
\* patterns only, a file is protected exactly when its name matches at least
\* one of them ({"*.log"}: app.log is protected, test.txt is not).
C17_WildcardOnFileName ==
    (/\ pc = "protect_done" /\ Inside /\ p_patterns /= {}
     /\ \A pat \in p_patterns : IsWildcardPattern(pat)) =>
        /\ p_result = (\E pat \in p_patterns : StarMatch(pat, FileName))
        /\ (p_patterns = {Pat_star_log} /\ FileName = Name_app_log) => p_result = TRUE
        /\ (p_patterns = {Pat_star_log} /\ FileName = Name_test_txt) => p_result = FALSE

\* {"*.log", ".env.*"} and pkg/node_modules/app.log
C17_Witness ==
    /\ pc = "protect_done"
    /\ p_base = BaseDir
    /\ p_file = BaseDir \o <<Seg_pkg, Seg_node_modules, Name_app_log>>
    /\ p_patterns = {Pat_star_log, Pat_env_star}
    /\ p_result = TRUE

\* C18: "**/*.pyc" protects every file whose name matches *.pyc, at any depth
\* under the base.
C18_DoubleStarAnyDepth ==
    (pc = "protect_done" /\ Inside /\ Pat_any_pyc \in p_patterns) =>
        (Suffix(FileName) = <<".", "p", "y", "c">> => p_result = TRUE)

\* {"**/*.pyc"} and src/pkg/c.pyc
C18_Witness ==
    /\ pc = "protect_done"
    /\ p_base = BaseDir
    /\ p_file = BaseDir \o <<Seg_src, Seg_pkg, Name_c_pyc>>
    /\ p_patterns = {Pat_any_pyc}
    /\ p_result = TRUE

\* the relative path written with "/" between its segments
RECURSIVE JoinPath(_)
JoinPath(parts) ==
    IF Len(parts) <= 1 THEN (IF parts = <<>> THEN <<>> ELSE parts[1])
    ELSE parts[1] \o <<"/">> \o JoinPath(Tail(parts))

\* C19: an exact pattern matches whole segments only: with literal patterns
\* only, a file none of whose segments is a pattern, and whose relative path is
\* not one either, is not protected (".env" protects .env, not .env.local).
C19_ExactWholeSegments ==
    (/\ pc = "protect_done" /\ Inside /\ p_patterns /= {}
     /\ \A pat \in p_patterns : IsLiteralPattern(pat)) =>
        /\ (/\ \A pat \in p_patterns, i \in 1..Len(RelSegments) : RelSegments[i] /= pat
            /\ JoinPath(RelSegments) \notin p_patterns) => p_result = FALSE
        /\ (p_patterns = {Pat_env} /\ RelSegments = <<Name_env>>) => p_result = TRUE
        /\ (p_patterns = {Pat_env} /\ RelSegments = <<Name_env_local>>) => p_result = FALSE

\* {".env"} and .env.local
C19_Witness ==
    /\ pc = "protect_done"
    /\ p_base = BaseDir
    /\ p_file = BaseDir \o <<Name_env_local>>
    /\ p_patterns = {Pat_env}
    /\ p_result = FALSE

\* C20: a k greater than the pool size is not an error: the sampler returns the
\* whole pool, every input item exactly once.
C20_OversizedKReturnsPool ==
    (SameLength /\ s_k > Len(s_files)) =>
        /\ pc /= "sample_raised"
        /\ pc = "sample_done" =>
            /\ Len(s_result) = Len(s_files)
            /\ \A i \in 1..Len(s_files) :
                   Cardinality({j \in 1..Len(s_result) : s_result[j] = s_files[i]}) = 1

\* three items, k = 4: the call has returned the three of them, not in input order
C20_Witness ==
    /\ pc = "sample_done" /\ SameLength
    /\ Len(s_files) = 3 /\ s_k = 4
    /\ s_result = <<2, 3, 1>>

-----------------------------------------------------------------------------
(* Claims about the range of the weight and the order of the scan *)

\* every value of every sub-table of the config lies in [0, 1]
ValuesInUnit(cfg) ==
    \A k \in DOMAIN cfg : \A i \in 1..Len(cfg[k]) : cfg[k][i][2] \in 0..One

\* C21: for a config whose values all lie in [0, 1], the value returned by
\* calculate_file_weight lies in [0, 1].
C21_WeightInUnitInterval ==
    (pc = "weight_done" /\ ValuesInUnit(w_config)) => (0 <= w_result /\ w_result <= One)

\* app.log, 60 days old, 11 MB: three contributions of 0.9, mean 0.9
C21_Witness ==
    /\ pc = "weight_done"
    /\ ValuesInUnit(w_config)
    /\ w_contribs = <<W(90), W(90), W(90)>>
    /\ w_result = W(90)

-----------------------------------------------------------------------------
(* Claims about the pattern set snap protects with *)

\* snap has loaded the patterns and filtered the files
Loaded == pc /= "snap_start"

\* a line of the ignore file that gives no pattern: blank, or a comment
IsBlankOrComment(line) ==
    \/ \A i \in 1..Len(line) : line[i] = " "
    \/ \E i \in 1..Len(line) : line[i] = "#" /\ \A j \in 1..(i - 1) : line[j] = " "

\* no .thanosignore was found, or it yields no pattern
NoIgnorePatterns ==
    \/ ignore_file = None
    \/ \A i \in 1..Len(ignore_file[1]) : IsBlankOrComment(ignore_file[1][i])

\* the files of the table a default pattern matches: .env (".env"),
\* node_modules/pkg/index.js ("node_modules/"), src/c.pyc ("*.pyc", on disk
\* only from NumSnapFiles = 6 on) and the
\* two files thanos init writes (".thanosignore", ".thanosrc.json")
DefaultProtectedIds ==
    {f \in 1..Len(SnapFileTable) :
        SnapFileTable[f].path \in {<<Name_env>>,
                                   <<Seg_node_modules, Seg_pkg, Name_index_js>>,
                                   <<Seg_src, Name_c_pyc>>,
                                   <<Name_thanosignore>>,
                                   <<Name_thanosrc_json>>}}

\* C22: without no_protect and with no pattern from an ignore file, snap filters
\* with the default pattern set; with no_protect the pattern set is empty and
\* every enumerated file is eligible.
C22_DefaultPatternsOrNone ==
    Loaded =>
        /\ (~no_protect /\ NoIgnorePatterns) =>
            /\ protected_patterns = DefaultProtectedPatterns
            /\ Range(files) = disk_at_start \ DefaultProtectedIds
            /\ Range(protected_files) = disk_at_start \cap DefaultProtectedIds
        /\ no_protect =>
            /\ protected_patterns = {}
            /\ files = all_files
            /\ Range(files) = disk_at_start
            /\ protected_files = <<>>

\* four files, no ignore file: .env and node_modules/pkg/index.js are kept
\* out of the eligible list
C22_Witness ==
    /\ Loaded /\ ~no_protect /\ ignore_file = None
    /\ disk_at_start = 1..4
    /\ files = <<1, 2>>
    /\ protected_files = <<3, 4>>

-----------------------------------------------------------------------------
(* Claims about the unlink loop and the early return *)

\* C23: a failed unlink does not abort snap: the loop goes on to every other
\* selected file, and when it ends eliminated_count + failed_count is the
\* number of files selected for elimination.
C23_UnlinkFailureCounted ==
    /\ pc = "unlink_loop" => eliminated_count + failed_count = unlink_i
    /\ failed_count > 0 => pc \in {"unlink_loop", "done_complete"}
    /\ pc = "done_complete" =>
        /\ unlink_i = Len(eliminated)
        /\ eliminated_count + failed_count = Len(eliminated)
        /\ Len(eliminated) = Len(files) \div 2
        /\ eliminated_count = Cardinality(disk_at_start \ disk)
        /\ Cardinality(Range(eliminated) \cap disk) = failed_count

\* two files were selected; unlinking the first failed, the second was deleted
C23_Witness ==
    /\ pc = "done_complete"
    /\ Len(eliminated) = 2
    /\ eliminated[1] \in disk /\ eliminated[2] \notin disk
    /\ failed_count = 1 /\ eliminated_count = 1

-----------------------------------------------------------------------------
(* SpecFind: one call of find_config_file *)

MaxDepth == 6

\* a chain of nested directories: /home, /home/proj, /home/proj/src, ...
DirChain == <<Seg_home, Seg_proj, Seg_src, Seg_pkg, Seg_lib, Seg_tmp, Seg_node_modules,
              Seg_home, Seg_proj>>

DirAt(depth) == SubSeq(DirChain, 1, depth)

ChainDepth == Min(MaxDepth, Len(DirChain))

InitFind ==
    /\ pc = "find_call"
    /\ c_directory \in {DirAt(d) : d \in 0..ChainDepth}
    /\ c_holders \in SUBSET {DirAt(d) : d \in 0..ChainDepth}
    /\ c_result = None
    /\ IdleSample /\ IdleRng /\ IdleRun /\ IdleWeight /\ IdleProtect /\ IdleSnap

FindCall ==
    /\ pc = "find_call"
    /\ c_result' = FindConfigFile(c_directory, Name_thanosignore, c_holders)
    /\ pc' = "find_done"
    /\ UNCHANGED <<c_directory, c_holders, sampleVars, rngVars, runVars, weightVars,
                   protectVars, snapVars>>

\* thanos init (cli.py): writes the file into the directory unless it exists
\* there
CliInitFind ==
    /\ pc = "find_call"
    /\ c_holders' = c_holders \cup {c_directory}
    /\ pc' = "find_call"
    /\ UNCHANGED <<c_directory, c_result, sampleVars, rngVars, runVars, weightVars,
                   protectVars, snapVars>>

NextFind == CliInitFind \/ FindCall

SpecFind == InitFind /\ [][NextFind]_vars

\* the depths of the directories the search examines: the start directory and
\* its parents, five directories at most, none above the root
ExaminedDepths == {d \in 0..Len(c_directory) : Len(c_directory) - d < 5}

HolderDepths == {d \in ExaminedDepths : SubSeq(c_directory, 1, d) \in c_holders}

\* C24: find_config_file returns the file of the nearest directory that holds
\* it among the start directory and its parents, examining at most 5
\* directories and stopping at the root; it returns None when none of them
\* holds the file.
C24_NearestConfigFile ==
    pc = "find_done" =>
        IF HolderDepths = {} THEN c_result = None
        ELSE LET nearest == CHOOSE d \in HolderDepths : \A e \in HolderDepths : e <= d
             IN  c_result = Some(Append(SubSeq(c_directory, 1, nearest), Name_thanosignore))

\* started six levels deep, the file is in the root, in /home and in
\* /home/proj: the one of /home/proj is returned, four levels up
C24_Witness ==
    /\ pc = "find_done"
    /\ Len(c_directory) = 6
    /\ c_holders = {DirAt(0), DirAt(1), DirAt(2)}
    /\ c_result = Some(<<Seg_home, Seg_proj, Name_thanosignore>>)

-----------------------------------------------------------------------------
(* Claims about the order of the scan of a sub-table *)

\* the positions of the selectors of a table that match x
MatchingAt(x, table) == {i \in 1..Len(table) : MatchesRange(x, table[i][1]) = "True"}

\* what a sub-table contributes under first-match-wins: the weight of its
\* first matching selector, nothing when no selector matches
FirstMatchWeight(x, table) ==
    IF MatchingAt(x, table) = {} THEN <<>>
    ELSE <<table[CHOOSE i \in MatchingAt(x, table) :
                     \A j \in MatchingAt(x, table) : i <= j][2]>>

\* C25: within by_age_days and within by_size_mb the selectors are scanned in
\* table order and the sub-table contributes the weight of the first selector
\* that matches, and only that one, even when several ranges match.
C25_FirstMatchWins ==
    (pc = "weight_done" /\ w_file.age_stat_ok /\ w_file.size_stat_ok
        /\ DOMAIN w_config /= {}) =>
        /\ Len(w_contribs) <= Cardinality(DOMAIN w_config)
        /\ w_contribs =
            ExtContrib(w_file, GetTable(w_config, "by_extension"))
                \o FirstMatchWeight(AgeOf(w_file, w_now), GetTable(w_config, "by_age_days"))
                \o FirstMatchWeight(SizeOf(w_file), GetTable(w_config, "by_size_mb"))

\* {"x+": 0.1, " 0-7 ": 0.2, "7-": 0.8} has been applied to a file modified
\* now: " 0-7 " matches, nothing was contributed
C25_Witness ==
    /\ pc = "weight_done"
    /\ DOMAIN w_config = {"by_age_days"} /\ w_config["by_age_days"] = AgeTableBad
    /\ w_file.age_stat_ok /\ AgedDays(w_file, 0)
    /\ MatchingAt(AgeOf(w_file, w_now), AgeTableBad) /= {}
    /\ w_contribs = <<>>

-----------------------------------------------------------------------------
(* The weighted draw of weighted_random_sample *)

\* a step of the for loop that gets past the check of the pool and in which
\* the remaining weights have a positive sum
WeightedDraw ==
    /\ pc = "sample_loop"
    /\ loop_i' = loop_i + 1
    /\ remaining_files /= <<>>
    /\ SumSeq(remaining_weights) > 0

\* cumulative >= r, for a draw r = <<num, den>>
MeetsOrExceeds(cumulative, r) == cumulative * r[2] >= r[1]

\* the list s without its i-th element
RemoveAt(s, i) == SubSeq(s, 1, i - 1) \o SubSeq(s, i + 1, Len(s))

\* C26: in every draw in which the remaining weights have a positive sum, the
\* draw r lies in [0, sum), the item selected is the first remaining item, in
\* pool order, whose cumulative weight meets or exceeds r, and that item and
\* its weight are removed from the pool by the same iteration, before the next
\* draw.
C26_DrawSelectsFirstMeeting ==
    [][WeightedDraw =>
        /\ s_r' /= None
        /\ LET r == s_r'[1]
               total == SumSeq(remaining_weights)
           IN  /\ 0 <= r[1]
               /\ r[1] < total * r[2]
               /\ \E i \in 1..Len(remaining_weights) :
                    /\ MeetsOrExceeds(Cumulative(remaining_weights, i), r)
                    /\ \A j \in 1..(i - 1) :
                        ~MeetsOrExceeds(Cumulative(remaining_weights, j), r)
                    /\ i <= Len(remaining_files) =>
                        /\ selected' = Append(selected, remaining_files[i])
                        /\ remaining_files' = RemoveAt(remaining_files, i)
                        /\ remaining_weights' = RemoveAt(remaining_weights, i)]_vars

\* two weighted draws have acted on a pool of three: a non-zero draw passed
\* over the first two items, and the next one took the first of the two left
C26_Witness ==
    /\ pc = "sample_loop"
    /\ SameLength
    /\ s_weights = <<Half, Half, One>>
    /\ selected = <<3, 1>>
    /\ remaining_files = <<2>>
    /\ remaining_weights = <<Half>>
    /\ s_r /= None
    /\ s_r[1][1] >= 0

\* the weight the caller gave to the item selected last (items are their own
\* positions in files)
LastSelectedWeight == s_weights[selected[Len(selected)]]

\* C27: a weight of 0 means never.  Whenever the pool of a draw held an item
\* of positive weight (the pool being the items still remaining plus the item
\* the draw took), the item taken has a positive weight, whatever value the
\* draw had, the ends of its range included.
C27_ZeroWeightNeverSelected ==
    (/\ SameLength
     /\ selected /= <<>>
     /\ SumSeq(remaining_weights) + LastSelectedWeight > 0)
        => LastSelectedWeight > 0

\* the lowest draw, r = 0, on a pool whose zero-weight item is not in front:
\* the item of positive weight is taken
C27_Witness ==
    /\ SameLength
    /\ s_weights = <<One, 0>>
    /\ s_r = Some(<<0, RawRange>>)
    /\ selected = <<1>>
    /\ remaining_weights = <<0>>

\* C28: when at most one file is eligible (no unprotected file, or exactly
\* one), snap returns before selecting, prompting or deleting: the call is at
\* its early return, the sampler was not entered and no random value drawn,
\* nothing is selected, no confirmation was requested and every file that
\* existed at the call still exists.
C28_AtMostOneEligibleReturnsEarly ==
    (Loaded /\ Len(files) <= 1) =>
        /\ pc = "done_no_eligible"
        /\ IdleSample
        /\ rng_pos = 0
        /\ eliminated = <<>>
        /\ confirm_input = None
        /\ unlink_i = 0
        /\ disk = disk_at_start

\* a run that is not a dry run found one eligible file next to protected ones
C28_Witness ==
    /\ pc = "done_no_eligible"
    /\ ~dry_run
    /\ Len(files) = 1
    /\ Len(protected_files) >= 2
    /\ disk = disk_at_start

\* the items of a list, with multiplicity: how often x occurs in s
Occurrences(s, x) == Cardinality({i \in 1..Len(s) : s[i] = x})

\* t is a rearrangement of s
IsRearrangement(s, t) ==
    /\ Len(s) = Len(t)
    /\ \A x \in Range(s) \cup Range(t) : Occurrences(s, x) = Occurrences(t, x)

\* the loop of weighted_random_sample is running or has returned
InSampler == pc \in {"sample_loop", "sample_done"}

\* C29: for inputs of equal length, at every point of the loop of
\* weighted_random_sample (and at its return) remaining_files and
\* remaining_weights have the same length and are aligned as the caller paired
\* them (the i-th remaining weight is the weight given to the i-th remaining
\* file), len(selected) + len(remaining_files) = len(files), and selected
\* followed by remaining_files is a rearrangement of files; the caller's
\* lists files and weights are never modified.
C29_LoopInvariant ==
    /\ [](SameLength /\ InSampler =>
            /\ Len(remaining_files) = Len(remaining_weights)
            /\ \A i \in 1..Len(remaining_files) :
                remaining_weights[i] = s_weights[remaining_files[i]]
            /\ Len(selected) + Len(remaining_files) = Len(s_files)
            /\ IsRearrangement(s_files, selected \o remaining_files))
    /\ [][s_files' = s_files /\ s_weights' = s_weights]_vars

\* two iterations have run on three items of different weights, the middle
\* item taken first
C29_Witness ==
    /\ pc = "sample_loop"
    /\ s_files = <<1, 2, 3>>
    /\ s_weights = <<0, One, Half>>
    /\ selected = <<2, 1>>
    /\ remaining_files = <<3>>
    /\ remaining_weights = <<Half>>
    /\ loop_i = 2

-----------------------------------------------------------------------------
(* Claims about an ignore file that yields patterns *)

\* the patterns an ignore file yields: its lines, stripped, that are neither
\* blank nor comments
IgnoreFilePatterns ==
    IF ignore_file = None THEN {}
    ELSE {Strip(ignore_file[1][i]) :
            i \in {j \in 1..Len(ignore_file[1]) : ~IsBlankOrComment(ignore_file[1][j])}}

\* C30: when a .thanosignore yields at least one pattern (and protection is
\* not disabled), snap protects with those patterns only: no default pattern
\* is added, the protected files are exactly those the ignore patterns match,
\* and a file only a default pattern matches (.env, node_modules/pkg/index.js)
\* is eligible unless the ignore file lists it too.
C30_IgnoreFileReplacesDefaults ==
    (Loaded /\ ~no_protect /\ ~NoIgnorePatterns) =>
        /\ protected_patterns = IgnoreFilePatterns
        /\ \A p \in DefaultProtectedPatterns :
            p \in protected_patterns => p \in IgnoreFilePatterns
        /\ Range(protected_files) =
            {f \in disk_at_start :
                ShouldProtectFile(AbsPath(f), BaseDir, IgnoreFilePatterns)}
        /\ \A f \in disk_at_start \cap DefaultProtectedIds :
            ~ShouldProtectFile(AbsPath(f), BaseDir, IgnoreFilePatterns)
                => f \in Range(files)

\* the ignore file lists *.log and src/: app.log is protected, while .env and
\* node_modules/pkg/index.js, which only default patterns match, are eligible
C30_Witness ==
    /\ Loaded /\ ~no_protect
    /\ IgnoreFilePatterns = {Pat_star_log, Seg_src \o <<"/">>}
    /\ disk_at_start = 1..4
    /\ files = <<2, 3, 4>>
    /\ protected_files = <<1>>

=============================================================================
